---- MODULE Spec2Model ----
(***************************************************************************)
(* LogJoin core (src/src/logjoin/LogJoin.cc): a sessionizer that appends   *)
(* pixel events to an ordered key-value store, keeps a per-user flush      *)
(* deadline in memory and, on flush, drains every due user's key range     *)
(* into a session envelope.                                                *)
(*                                                                         *)
(* Strings whose bytes matter (keys, uids, values) are sequences of byte   *)
(* values, so that prefix tests and the store's byte order are computed as *)
(* the code computes them.  Parameter names are only looked up, and are    *)
(* TLA+ strings.                                                           *)
(*                                                                         *)
(* NestedLoopJoin (src/src/eventql/sql/expressions/table/                  *)
(* nested_loop_join.cc) is an unrelated subsystem with its own variables   *)
(* and its own specification, SpecJoin.                                    *)
(***************************************************************************)
EXTENDS Integers, Sequences, FiniteSets, TLC

\* ------------------------------------------------------------------ bounds

\* number of operations (insert / flush calls) in a run
MaxOps == 3

\* event times are whole seconds 0..MaxTime
MaxTime == 1

\* number of appendToSession calls in a run of the codec
MaxCodecOps == 2

\* number of rows of the base table of a join
MaxBaseRows == 2

\* number of rows of the joined table of a join
MaxJoinedRows == 2

\* ------------------------------------------------------- program constants

kMicrosPerSecond == 1000000

kSessionIdleTimeoutSeconds == 1800

\* "~"
Tilde == <<126>>

\* "~cust"
CustSuffix == <<126, 99, 117, 115, 116>>

\* "__"
ReservedPrefix == <<95, 95>>

\* "__sessionq-"
SessionQPrefix == <<95, 95, 115, 101, 115, 115, 105, 111, 110, 113, 45>>

\* the (name, id) pairs registered by the constructor
PixelParams ==
    { <<"dw_ab", 1>>, <<"l", 2>>, <<"u_x", 3>>, <<"u_y", 4>>, <<"is", 5>>,
      <<"pg", 6>>, <<"q_cat1", 7>>, <<"q_cat2", 8>>, <<"q_cat3", 9>>,
      <<"slrid", 10>>, <<"i", 11>>, <<"s", 12>>, <<"ml", 13>>, <<"adm", 14>>,
      <<"lgn", 15>>, <<"slr", 16>>, <<"lng", 17>>, <<"dwnid", 18>>,
      <<"fnm", 19>>, <<"r_url", 20>>, <<"r_nm", 21>>, <<"r_cpn", 22>>,
      <<"x", 23>>, <<"qx", 24>>, <<"cs", 25>>, <<"qt", 26>>,
      <<"qstr~de", 100>>, <<"qstr~pl", 101>>, <<"qstr~en", 102>>,
      <<"qstr~fr", 103>>, <<"qstr~it", 104>>, <<"qstr~nl", 105>>,
      <<"qstr~es", 106>> }

\* ---------------------------------------------------------- string helpers

Min(a, b) == IF a < b THEN a ELSE b

\* StringUtil::beginsWith
BeginsWith(s, p) ==
    /\ Len(p) <= Len(s)
    /\ SubSeq(s, 1, Len(p)) = p

\* StringUtil::endsWith
EndsWith(s, p) ==
    /\ Len(p) <= Len(s)
    /\ SubSeq(s, Len(s) - Len(p) + 1, Len(s)) = p

\* std::string::find of a one-byte pattern: 1-based index, 0 for npos
Find(s, ch) ==
    IF \E i \in 1..Len(s) : s[i] = ch
    THEN CHOOSE i \in 1..Len(s) : s[i] = ch /\ \A j \in 1..(i - 1) : s[j] # ch
    ELSE 0

\* std::string::substr(pos, n) with a 0-based pos <= size
Substr(s, pos, n) == SubSeq(s, pos + 1, Min(pos + n, Len(s)))

\* byte-wise lexicographic order of the store's keys
KeyLess(a, b) ==
    \E i \in 1..(Min(Len(a), Len(b)) + 1) :
        /\ \A j \in 1..(i - 1) : a[j] = b[j]
        /\ \/ i > Len(a) /\ i <= Len(b)
           \/ i <= Len(a) /\ i <= Len(b) /\ a[i] < b[i]

\* ------------------------------------------------------------------- codec

\* LogJoin::getPixelParamID: the id, or 0 when the lookup raises kIndexError
getPixelParamID(param) ==
    IF \E p \in PixelParams : p[1] = param
    THEN (CHOOSE p \in PixelParams : p[1] = param)[2]
    ELSE 0

\* LogJoin::getPixelParamName: the name, or "" when the lookup raises
getPixelParamName(id) ==
    IF \E p \in PixelParams : p[2] = id
    THEN (CHOOSE p \in PixelParams : p[2] = id)[1]
    ELSE ""

RECURSIVE appendVarUInt(_)
\* util::BinaryMessageWriter::appendVarUInt: 7 bits per byte, low group first
appendVarUInt(n) ==
    IF n < 128 THEN <<n>>
    ELSE <<(n % 128) + 128>> \o appendVarUInt(n \div 128)

\* one more 7-bit group b in front of the groups read as r
VarUIntGroup(b, r) ==
    [ok |-> r.ok, val |-> (b - 128) + 128 * r.val, pos |-> r.pos]

RECURSIVE readVarUInt(_, _)
\* util::BinaryMessageReader::readVarUInt at 1-based position pos:
\* [ok, val, pos] with pos the position after the varint
readVarUInt(buf, pos) ==
    IF pos > Len(buf) THEN [ok |-> FALSE, val |-> 0, pos |-> pos]
    ELSE IF buf[pos] < 128 THEN [ok |-> TRUE, val |-> buf[pos], pos |-> pos + 1]
    ELSE VarUIntGroup(buf[pos], readVarUInt(buf, pos + 1))

RECURSIVE EncodeParams(_)
\* the loop of appendToSession over the stored parameters
EncodeParams(logline) ==
    IF logline = <<>> THEN <<>>
    ELSE appendVarUInt(getPixelParamID(logline[1][1]))
           \o appendVarUInt(Len(logline[1][2]))
           \o logline[1][2]
           \o EncodeParams(Tail(logline))

\* the event record appendToSession writes
EncodeEvent(time, evid, logline) ==
    appendVarUInt(time \div kMicrosPerSecond)
      \o appendVarUInt(Len(evid))
      \o evid
      \o EncodeParams(logline)

\* ConsParam with the parameter put behind the parameters decoded after it
ConsParamBack(name, value, rest) ==
    [ok |-> rest.ok, logline |-> rest.logline \o << <<name, value>> >>]

\* a decoded parameter in front of the parameters decoded as rest
ConsParam(name, value, rest) ==
    [ok |-> rest.ok, logline |-> << <<name, value>> >> \o rest.logline]

RECURSIVE DecodeParams(_, _)
RECURSIVE DecodeParam(_, _, _)
\* one turn of the parameter loop, with the id and the length already read
DecodeParam(buf, id, len) ==
    IF ~id.ok \/ getPixelParamName(id.val) = "" \/ ~len.ok
         \/ len.pos + len.val - 1 > Len(buf)
    THEN [ok |-> FALSE, logline |-> <<>>]
    ELSE ConsParam(getPixelParamName(id.val),
                   SubSeq(buf, len.pos, len.pos + len.val - 1),
                   DecodeParams(buf, len.pos + len.val))

\* the length varint that follows the varint read as id
ReadAfter(buf, id) == readVarUInt(buf, id.pos)

\* the parameter loop of flushSession's decoder (inside its try block):
\* [ok, logline]; ok is FALSE when a read or getPixelParamName raises
DecodeParams(buf, pos) ==
    IF pos > Len(buf) THEN [ok |-> TRUE, logline |-> <<>>]
    ELSE DecodeParam(buf, readVarUInt(buf, pos),
                     ReadAfter(buf, readVarUInt(buf, pos)))

\* the decoded event, from the time t, the evid length l and the parameters
DecodedEvent(buf, t, l, hdr, ps) ==
    [hdr |-> hdr,
     time |-> t.val * kMicrosPerSecond,
     evid |-> IF hdr THEN SubSeq(buf, l.pos, l.pos + l.val - 1) ELSE <<>>,
     ok |-> ps.ok,
     logline |-> ps.logline]

\* the header of an event record: the time t and the evid length l are read
\* outside the try block of flushSession, and hdr is FALSE when a read raises
DecodeHeader(buf, t, l) ==
    DecodedEvent(buf, t, l,
                 t.ok /\ l.ok /\ l.pos + l.val - 1 <= Len(buf),
                 IF t.ok /\ l.ok /\ l.pos + l.val - 1 <= Len(buf)
                 THEN DecodeParams(buf, l.pos + l.val)
                 ELSE [ok |-> FALSE, logline |-> <<>>])

\* flushSession's decoder of one event record
DecodeEvent(buf) ==
    DecodeHeader(buf, readVarUInt(buf, 1), ReadAfter(buf, readVarUInt(buf, 1)))

\* msg::encode of a SessionEnvelope: length-prefixed fields in schema order
EncodeEnvelope(env) ==
    appendVarUInt(Len(env.customer)) \o env.customer
      \o appendVarUInt(Len(env.session_id)) \o env.session_id
      \o appendVarUInt(env.time)
      \o appendVarUInt(Len(env.session_data)) \o env.session_data

\* a length-prefixed field at pos: [val, pos] with pos the position after it
ReadField(buf, len) ==
    [val |-> SubSeq(buf, len.pos, len.pos + len.val - 1),
     pos |-> len.pos + len.val]

ReadFieldAt(buf, pos) == ReadField(buf, readVarUInt(buf, pos))

EnvelopeOf(c, s, t, d) ==
    [customer |-> c.val, session_id |-> s.val, time |-> t.val,
     session_data |-> d.val]

EnvelopeTail(buf, c, s, t) == EnvelopeOf(c, s, t, ReadFieldAt(buf, t.pos))

EnvelopeTime(buf, c, s) == EnvelopeTail(buf, c, s, readVarUInt(buf, s.pos))

EnvelopeSid(buf, c) == EnvelopeTime(buf, c, ReadFieldAt(buf, c.pos))

\* msg::decode of a SessionEnvelope
DecodeEnvelope(buf) == EnvelopeSid(buf, ReadFieldAt(buf, 1))

\* ------------------------------------------------------------------- store

\* the store seen through the transaction: a function from keys to values
EmptyStore == [k \in {} |-> <<>>]

\* MDBTransaction::insert and ::update (both insert-or-overwrite)
Put(st, k, v) == [x \in DOMAIN st \cup {k} |-> IF x = k THEN v ELSE st[x]]

\* MDBCursor::del of the record at key k
Del(st, k) == [x \in DOMAIN st \ {k} |-> st[x]]

\* the least key of a non-empty set of keys
MinKey(S) == CHOOSE k \in S : \A j \in S \ {k} : KeyLess(k, j)

\* MDBCursor::getFirstOrGreater: the least key >= key, <<>> at the end
getFirstOrGreater(st, key) ==
    LET S == {k \in DOMAIN st : ~KeyLess(k, key)}
    IN IF S = {} THEN <<>> ELSE MinKey(S)

\* MDBCursor::getNext from the (possibly deleted) position key
getNext(st, key) ==
    LET S == {k \in DOMAIN st : KeyLess(key, k)}
    IN IF S = {} THEN <<>> ELSE MinKey(S)

\* ----------------------------------------------------------------- session

\* a TrackedSession just constructed by flushSession
NewSession(uid) == [uid |-> uid, customer_key |-> <<>>, events |-> <<>>]

\* TrackedSession::insertLogline
SessionInsertLogline(session, time, evtype, evid, logline) ==
    [session EXCEPT !.events =
        Append(@, [time |-> time, evtype |-> evtype, evid |-> evid,
                   logline |-> logline])]

\* TrackedSession::firstSeenTime of a session with events
firstSeenTime(session) ==
    CHOOSE t \in {session.events[i].time : i \in DOMAIN session.events} :
        \A i \in DOMAIN session.events : t <= session.events[i].time

\* ------------------------------------------------------------ flushSession

\* what the JoinTarget does with a session: it raises, or returns data
TargetOutcomes ==
    {[throws |-> TRUE, data |-> <<>>]}
      \cup {[throws |-> FALSE, data |-> d] : d \in {<<1>>, <<2>>}}

\* values of rnd_.hex128(), abbreviated to one hex digit
Hex128 == {<<48>>, <<49>>}

\* values of rnd_.hex64(), abbreviated to one hex digit
Hex64 == {<<48>>, <<49>>}

\* EnvelopeRecord with the envelope put under a second key as well
EnvelopeRecordTwice(st, key, buf) ==
    [store |-> Put(Put(st, key, buf), key \o <<48>>, buf), threw |-> FALSE,
     written |-> <<[key |-> key, value |-> buf],
                   [key |-> key \o <<48>>, value |-> buf]>>]

\* the record onSession puts under "__sessionq-<hex128>"
EnvelopeRecord(st, key, buf) ==
    [store |-> Put(st, key, buf), threw |-> FALSE,
     written |-> <<[key |-> key, value |-> buf]>>]

\* onSession without the dry-run return
onSessionWet(st, session, outcome, hex, dry) ==
    IF outcome.throws
    THEN [store |-> st, threw |-> TRUE, written |-> <<>>]
    ELSE IF session.events = <<>>
    THEN [store |-> st, threw |-> TRUE, written |-> <<>>]
    ELSE EnvelopeRecord(st, SessionQPrefix \o hex,
                        EncodeEnvelope([customer |-> session.customer_key,
                                        session_id |-> session.uid,
                                        time |-> firstSeenTime(session),
                                        session_data |-> outcome.data]))

\* LogJoin::onSession: [store, threw, written]; written holds the record
\* put under "__sessionq-<hex128>", if any.  It raises when the target
\* raises, and when the session has no first-seen time
onSession(st, session, outcome, hex, dry) ==
    IF outcome.throws
    THEN [store |-> st, threw |-> TRUE, written |-> <<>>]
    ELSE IF dry
    THEN [store |-> st, threw |-> FALSE, written |-> <<>>]
    ELSE IF session.events = <<>>
    THEN [store |-> st, threw |-> TRUE, written |-> <<>>]
    ELSE EnvelopeRecord(st, SessionQPrefix \o hex,
                        EncodeEnvelope([customer |-> session.customer_key,
                                        session_id |-> session.uid,
                                        time |-> firstSeenTime(session),
                                        session_data |-> outcome.data]))

\* the key test that ends flushSession's scan
ScanStops(key, uid) == key = <<>> \/ ~BeginsWith(key, uid)

\* the session after one scanned record that is not a "~cust" record
ScanEvent(session, evtype, ev) ==
    IF ev.ok
    THEN SessionInsertLogline(session, ev.time, evtype, ev.evid, ev.logline)
    ELSE session

RECURSIVE ScanLoop(_, _, _, _, _)
RECURSIVE ScanRecord(_, _, _, _, _, _, _)
\* ScanRecord with cursor->del() inside the event branch only
ScanRecordKeepCust(uid, st, st2, key, session, invalid, ev) ==
    IF EndsWith(key, CustSuffix)
    THEN ScanLoop(uid, st, getNext(st, key),
                  [session EXCEPT !.customer_key = st[key]], invalid)
    ELSE IF ~ev.hdr
    THEN [store |-> st, session |-> session, invalid |-> invalid, err |-> TRUE]
    ELSE ScanLoop(uid, st2, getNext(st2, key),
                  ScanEvent(session,
                            Substr(Substr(key, Len(uid) + 1, Len(key)), 0, 1),
                            ev),
                  IF ev.ok THEN invalid ELSE invalid + 1)

\* one turn of the scan loop on the record at key: st2 is the store after
\* cursor->del(), ev the decoded value of an event record
ScanRecord(uid, st, st2, key, session, invalid, ev) ==
    IF EndsWith(key, CustSuffix)
    THEN ScanLoop(uid, st2, getNext(st2, key),
                  [session EXCEPT !.customer_key = st[key]], invalid)
    ELSE IF ~ev.hdr
    THEN [store |-> st, session |-> session, invalid |-> invalid, err |-> TRUE]
    ELSE ScanLoop(uid, st2, getNext(st2, key),
                  ScanEvent(session,
                            Substr(Substr(key, Len(uid) + 1, Len(key)), 0, 1),
                            ev),
                  IF ev.ok THEN invalid ELSE invalid + 1)

\* the scan loop of flushSession from cursor position key:
\* [store, session, invalid, err]; err when the header of a record cannot be
\* read, which leaves the loop by an exception
ScanLoop(uid, st, key, session, invalid) ==
    IF ScanStops(key, uid)
    THEN [store |-> st, session |-> session, invalid |-> invalid, err |-> FALSE]
    ELSE ScanRecord(uid, st, Del(st, key), key, session, invalid,
                    DecodeEvent(st[key]))

\* AfterOnSession with the exception of onSession leaving flushSession
AfterOnSessionPropagates(scan, r) ==
    [store |-> r.store, session |-> scan.session, invalid |-> scan.invalid,
     joined |-> IF r.threw THEN 0 ELSE 1, called |-> TRUE, threw |-> r.threw,
     written |-> r.written, err |-> r.threw, closed |-> TRUE]

\* flushSession after onSession returned or raised r
AfterOnSession(scan, r) ==
    [store |-> r.store, session |-> scan.session, invalid |-> scan.invalid,
     joined |-> 1, called |-> TRUE, threw |-> r.threw, written |-> r.written,
     err |-> FALSE, closed |-> TRUE]

\* flushSession after its scan loop; cursor->close() follows the loop, and is
\* not reached when an exception leaves the loop
AfterScan(scan, outcome, hex, dry) ==
    IF scan.err \/ Len(scan.session.customer_key) = 0
    THEN [store |-> scan.store, session |-> scan.session,
          invalid |-> scan.invalid, joined |-> 0, called |-> FALSE,
          threw |-> FALSE, written |-> <<>>, err |-> scan.err,
          closed |-> ~scan.err]
    ELSE AfterOnSession(scan,
                        onSession(scan.store, scan.session, outcome, hex, dry))

\* LogJoin::flushSession: [store, session, invalid, joined, called, threw,
\* written, err, closed]; invalid and joined are the increments of the
\* counters, closed tells whether cursor->close() was called
flushSession(uid, st, outcome, hex, dry) ==
    AfterScan(ScanLoop(uid, st, getFirstOrGreater(st, uid), NewSession(uid), 0),
              outcome, hex, dry)

\* ------------------------------------------------------------------- flush

\* the orders in which the iteration of flush can visit the users in S
Orders(S) ==
    {o \in [1..Cardinality(S) -> S] :
        \A i, j \in 1..Cardinality(S) : i # j => o[i] # o[j]}

\* the record of one flushSession call
SessionRecord(uid, st, outcome, r) ==
    [uid |-> uid, store0 |-> st, store1 |-> r.store, session |-> r.session,
     called |-> r.called, threw |-> r.threw,
     target_threw |-> r.called /\ outcome.throws,
     data |-> IF r.called /\ ~outcome.throws THEN outcome.data ELSE <<>>,
     written |-> r.written, joined |-> r.joined, invalid |-> r.invalid,
     err |-> r.err, closed |-> r.closed]

\* the loop state after flushSession(uid) ended as r; the entry is erased
\* unless an exception left flushSession
FlushStep(acc, uid, outcome, r) ==
    [store |-> r.store,
     invalid |-> acc.invalid + r.invalid,
     joined |-> acc.joined + r.joined,
     erased |-> IF r.err THEN acc.erased ELSE acc.erased \cup {uid},
     sessions |-> Append(acc.sessions, SessionRecord(uid, acc.store, outcome, r)),
     err |-> r.err]

RECURSIVE FlushLoop(_, _, _, _, _)
\* the loop of LogJoin::flush over the due users in iteration order:
\* acc = [store, invalid, joined, erased, sessions, err]; sessions records
\* each flushSession call, and an exception leaving flushSession ends the loop
FlushLoop(order, acc, outcomes, hexes, dry) ==
    IF order = <<>> \/ acc.err THEN acc
    ELSE FlushLoop(Tail(order),
                   FlushStep(acc, Head(order), outcomes[Head(order)],
                             flushSession(Head(order), acc.store,
                                          outcomes[Head(order)],
                                          hexes[Head(order)], dry)),
                   outcomes, hexes, dry)

\* Due with the stream time taken in seconds against deadlines in micros
DueInSeconds(deadl, stream_time) ==
    {u \in DOMAIN deadl : deadl[u] < stream_time \div kMicrosPerSecond}

\* the users flush finds due at stream_time
Due(deadl, stream_time) == {u \in DOMAIN deadl : deadl[u] < stream_time}

\* ------------------------------------------------------------------ insert

\* the shard of this instance rejects the uid "r"
testUID(uid) == uid # <<114>>

\* stx::URI::getParam: the value of the first parameter named key
getParam(params, key) ==
    IF \E i \in DOMAIN params : params[i][1] = key
    THEN [found |-> TRUE,
          value |-> params[CHOOSE i \in DOMAIN params :
                              /\ params[i][1] = key
                              /\ \A j \in 1..(i - 1) : params[j][1] # key][2]]
    ELSE [found |-> FALSE, value |-> <<>>]

\* emplace on the map of flush times: inserts only when the key has no entry
Emplace(m, k, v) ==
    IF k \in DOMAIN m THEN m
    ELSE [x \in DOMAIN m \cup {k} |-> IF x = k THEN v ELSE m[x]]

\* Touch that always stores the deadline of the event at hand
TouchLatest(deadl, uid, flush_at) ==
    [x \in DOMAIN deadl \cup {uid} |-> IF x = uid THEN flush_at ELSE deadl[x]]

\* the deadline update at the head of appendToSession
Touch(deadl, uid, flush_at) ==
    IF uid \notin DOMAIN deadl \/ deadl[uid] < flush_at
    THEN Emplace(deadl, uid, flush_at)
    ELSE deadl

\* appendToSession after the deadline update left deadl2
AppendRecord(deadl2, st, customer_key, time, uid, evid, evtype, logline, hex) ==
    IF \E i \in DOMAIN logline : getPixelParamID(logline[i][1]) = 0
    THEN [err |-> "IndexError", store |-> st, deadlines |-> deadl2]
    ELSE [err |-> "none",
          store |-> Put(Put(st, uid \o Tilde \o evtype \o Tilde \o hex,
                            EncodeEvent(time, evid, logline)),
                        uid \o CustSuffix, customer_key),
          deadlines |-> deadl2]

\* LogJoin::appendToSession: [err, store, deadlines]
appendToSession(deadl, st, customer_key, time, uid, evid, evtype, logline, hex) ==
    AppendRecord(Touch(deadl, uid,
                       time + kSessionIdleTimeoutSeconds * kMicrosPerSecond),
                 st, customer_key, time, uid, evid, evtype, logline, hex)

\* the uid and eid halves of a c parameter holding a "~"
UidOf(c) == SubSeq(c, 1, Find(c, 126) - 1)

EidOf(c) == SubSeq(c, Find(c, 126) + 1, Len(c))

\* IsEventType with the default branch of the switch missing
IsEventTypeAny(evtype) == TRUE

\* the event types insertLogline lets through: q, v, c, u
IsEventType(evtype) == evtype[1] \in {113, 118, 99, 117}

\* the parameters insertLogline stores
StoredParams(params) ==
    SelectSeq(params, LAMBDA p : p[1] \notin {"c", "e", "v"})

\* the outcome of insertLogline when it reached appendToSession
Appended(r) ==
    [err |-> r.err, store |-> r.store, deadlines |-> r.deadlines,
     appended |-> TRUE]

\* the outcome of insertLogline when it did not reach appendToSession
NotAppended(err, deadl, st) ==
    [err |-> err, store |-> st, deadlines |-> deadl, appended |-> FALSE]

\* InsertParsed with the shard test after the checks of the e parameter
InsertParsedShardLate(deadl, st, customer_key, time, params, hex, c, e) ==
    IF ~c.found THEN NotAppended("ParseError", deadl, st)
    ELSE IF Find(c.value, 126) = 0 THEN NotAppended("ParseError", deadl, st)
    ELSE IF Len(UidOf(c.value)) = 0 \/ Len(EidOf(c.value)) = 0
    THEN NotAppended("ParseError", deadl, st)
    ELSE IF ~e.found \/ Len(e.value) # 1
    THEN NotAppended("ParseError", deadl, st)
    ELSE IF ~IsEventType(e.value) THEN NotAppended("ParseError", deadl, st)
    ELSE IF ~testUID(UidOf(c.value)) THEN NotAppended("none", deadl, st)
    ELSE Appended(appendToSession(deadl, st, customer_key, time,
                                  UidOf(c.value), EidOf(c.value), e.value,
                                  StoredParams(params), hex))

\* the try block of LogJoin::insertLogline with the c and e lookups done
InsertParsed(deadl, st, customer_key, time, params, hex, c, e) ==
    IF ~c.found THEN NotAppended("ParseError", deadl, st)
    ELSE IF Find(c.value, 126) = 0 THEN NotAppended("ParseError", deadl, st)
    ELSE IF Len(UidOf(c.value)) = 0 \/ Len(EidOf(c.value)) = 0
    THEN NotAppended("ParseError", deadl, st)
    ELSE IF ~testUID(UidOf(c.value)) THEN NotAppended("none", deadl, st)
    ELSE IF ~e.found \/ Len(e.value) # 1
    THEN NotAppended("ParseError", deadl, st)
    ELSE IF ~IsEventType(e.value) THEN NotAppended("ParseError", deadl, st)
    ELSE Appended(appendToSession(deadl, st, customer_key, time,
                                  UidOf(c.value), EidOf(c.value), e.value,
                                  StoredParams(params), hex))

\* the try block of LogJoin::insertLogline(customer_key, time, body):
\* [err, store, deadlines, appended]
insertLogline(deadl, st, customer_key, time, params, hex) ==
    InsertParsed(deadl, st, customer_key, time, params, hex,
                 getParam(params, "c"), getParam(params, "e"))

\* the decimal number std::stoul reads at the head of s, -1 when s does not
\* start with a digit (std::invalid_argument)
RECURSIVE StoULDigits(_, _)
StoULDigits(s, acc) ==
    IF s = <<>> \/ Head(s) < 48 \/ Head(s) > 57 THEN acc
    ELSE StoULDigits(Tail(s), 10 * acc + (Head(s) - 48))

StoUL(s) ==
    IF s = <<>> \/ Head(s) < 48 \/ Head(s) > 57 THEN -1
    ELSE StoULDigits(s, 0)

\* --------------------------------------------------------- importTimeoutList

\* MDBCursor::getFirst: the least key, <<>> when the store is empty
getFirst(st) == IF DOMAIN st = {} THEN <<>> ELSE MinKey(DOMAIN st)

RECURSIVE ImportLoop(_, _, _)
\* ImportLoop with the "~cust" test missing: a cust record is
\* read as an event record
ImportLoopAllKeys(st, key, deadl) ==
    IF key = <<>> THEN [deadlines |-> deadl, err |-> FALSE, closed |-> TRUE]
    ELSE IF BeginsWith(key, ReservedPrefix)
    THEN ImportLoop(st, getNext(st, key), deadl)
    ELSE IF Find(key, 126) = 0 \/ ~readVarUInt(st[key], 1).ok
    THEN [deadlines |-> deadl, err |-> TRUE, closed |-> FALSE]
    ELSE ImportLoop(st, getNext(st, key),
                    Touch(deadl, SubSeq(key, 1, Find(key, 126) - 1),
                          (readVarUInt(st[key], 1).val
                             + kSessionIdleTimeoutSeconds) * kMicrosPerSecond))

\* one turn of the loop on an event record at key, t the varint read at the
\* head of its value.  A read past the end of the value raises, and the
\* exception leaves importTimeoutList before cursor->close().  A key without
\* "~" makes sid.begin() + npos undefined: no store of this model holds one,
\* and the turn is given the outcome of a crash
ImportRecord(st, key, deadl, t) ==
    IF Find(key, 126) = 0 \/ ~t.ok
    THEN [deadlines |-> deadl, err |-> TRUE, closed |-> FALSE]
    ELSE ImportLoop(st, getNext(st, key),
                    Touch(deadl, SubSeq(key, 1, Find(key, 126) - 1),
                          (t.val + kSessionIdleTimeoutSeconds)
                             * kMicrosPerSecond))

\* the loop of importTimeoutList from cursor position key:
\* [deadlines, err, closed]
ImportLoop(st, key, deadl) ==
    IF key = <<>> THEN [deadlines |-> deadl, err |-> FALSE, closed |-> TRUE]
    ELSE IF BeginsWith(key, ReservedPrefix)
    THEN ImportLoop(st, getNext(st, key), deadl)
    ELSE IF EndsWith(key, CustSuffix)
    THEN ImportLoop(st, getNext(st, key), deadl)
    ELSE ImportRecord(st, key, deadl, readVarUInt(st[key], 1))

\* LogJoin::importTimeoutList on a core whose deadlines are deadl
importTimeoutList(deadl, st) == ImportLoop(st, getFirst(st), deadl)

\* ------------------------------------------------------------------ inputs

\* uids "a" and "a1" (accepted by the shard) and "r" (rejected)
UidA == <<97>>

UidA1 == <<97, 49>>

UidR == <<114>>

\* the uid "a\303\251" (a, then e with an acute accent in UTF-8), accepted by
\* the shard: its bytes after "a" sort behind "~"
UidAE == <<97, 195, 169>>

\* the c parameter "<uid>~e"
CParam(uid) == <<"c", uid \o Tilde \o <<101>>>>

\* e parameters: "q", "c", "x", "qq", ""
EParam(v) == <<"e", v>>

\* bodies that parse and name an accepted uid
ValidBodies ==
    { <<CParam(UidA), EParam(<<113>>)>>,
      <<CParam(UidA1), EParam(<<113>>)>>,
      <<<<"v", <<49>>>>, CParam(UidA), <<"l", <<55>>>>, EParam(<<99>>)>> }

\* a body that parses and names the uid "__", which the shard accepts
ReservedBodies == { <<CParam(ReservedPrefix), EParam(<<113>>)>> }

\* bodies that parse and carry a parameter name that is not registered
IndexBodies ==
    { <<CParam(UidA1), EParam(<<113>>), <<"zz", <<49>>>>>>,
      <<CParam(UidA), EParam(<<113>>), <<"zz", <<49>>>>>> }

\* bodies with a well formed c parameter naming the rejected uid
DroppedBodies ==
    { <<CParam(UidR), EParam(<<113>>)>>,
      <<CParam(UidR)>>,
      <<CParam(UidR), EParam(<<120>>)>> }

\* bodies with a missing or malformed c parameter
BadCBodies ==
    { <<EParam(<<113>>)>>,
      <<<<"c", <<97>>>>, EParam(<<113>>)>>,
      <<<<"c", <<126, 101>>>>, EParam(<<113>>)>>,
      <<<<"c", <<97, 126>>>>, EParam(<<113>>)>> }

\* bodies of an accepted uid with a missing or invalid e parameter
BadEBodies ==
    { <<CParam(UidA)>>,
      <<CParam(UidA), EParam(<<113, 113>>)>>,
      <<CParam(UidA), EParam(<<>>)>>,
      <<CParam(UidA), EParam(<<120>>)>> }

\* customer keys "X" and "Y"
Customers == {<<88>>, <<89>>}

\* a time that is not a whole number of seconds: 0.5 s
HalfSecond == kMicrosPerSecond \div 2

\* the calls of insertLogline(customer_key, time, body, txn); the last three
\* carry an empty customer key, the uid UidAE, and a time of 0.5 s
InsertInputs ==
    {[customer |-> cu, time |-> s * kMicrosPerSecond, params |-> b] :
        cu \in Customers, s \in 0..MaxTime, b \in ValidBodies}
      \cup {[customer |-> <<88>>, time |-> s * kMicrosPerSecond, params |-> b] :
              s \in 0..MaxTime, b \in IndexBodies \cup ReservedBodies}
      \cup {[customer |-> <<88>>, time |-> 0, params |-> b] :
              b \in DroppedBodies \cup BadCBodies \cup BadEBodies}
      \cup {[customer |-> <<>>, time |-> 0,
              params |-> <<CParam(UidA), EParam(<<113>>)>>]}
      \cup {[customer |-> <<89>>, time |-> 0,
              params |-> <<CParam(UidAE), EParam(<<113>>)>>]}
      \cup {[customer |-> <<88>>, time |-> HalfSecond,
              params |-> <<CParam(UidA), EParam(<<117>>), <<"l", <<55>>>>>>]}

\* raw lines: pre holds the fields that a "|" ends, params the body after them
RawLines ==
    { [pre |-> <<>>, params |-> <<CParam(UidA), EParam(<<113>>)>>],
      [pre |-> <<<<88>>>>, params |-> <<CParam(UidA), EParam(<<113>>)>>],
      [pre |-> <<<<88>>, <<120>>>>, params |-> <<CParam(UidA), EParam(<<113>>)>>],
      [pre |-> <<<<88>>, <<48>>>>, params |-> <<CParam(UidA), EParam(<<113>>)>>],
      [pre |-> <<<<89>>, <<49>>>>, params |-> <<CParam(UidA1), EParam(<<113>>)>>],
      [pre |-> <<<<88>>, <<49>>>>, params |-> <<EParam(<<113>>)>>] }

\* event times of the codec runs, in seconds: one and two varint bytes
CodecTimes == {0, 128, 300}

\* event ids of the codec runs: "e" and "e~f"
CodecEvids == {<<101>>, <<101, 126, 102>>}

\* stored parameter lists of the codec runs, every name registered: none,
\* one, an empty value, a name repeated (with an empty value), a name that
\* holds a "~", and the same two parameters in both orders
CodecLoglines ==
    { <<>>,
      << <<"l", <<55>>>> >>,
      << <<"x", <<>>>> >>,
      << <<"l", <<55>>>>, <<"l", <<>>>> >>,
      << <<"qstr~de", <<55, 56>>>>, <<"l", <<55>>>> >>,
      << <<"l", <<55>>>>, <<"qstr~de", <<55, 56>>>> >> }

\* the inserts of the runs that end with repeated flushes: valid lines of
\* three users, each with a customer key
LiveInputs ==
    { [customer |-> <<88>>, time |-> 0,
       params |-> <<CParam(UidA), EParam(<<113>>)>>],
      [customer |-> <<89>>, time |-> kMicrosPerSecond,
       params |-> <<CParam(UidA), EParam(<<113>>)>>],
      [customer |-> <<88>>, time |-> 0,
       params |-> <<CParam(UidA1), EParam(<<113>>)>>],
      [customer |-> <<89>>, time |-> 0,
       params |-> <<CParam(UidAE), EParam(<<113>>)>>] }

\* values of rnd_.hex128() in these runs: one for each user
LiveHex128 == {<<48>>, <<49>>, <<50>>}

\* the stream times flush is called with: each deadline and one micro past it
FlushTimes ==
    {(s + kSessionIdleTimeoutSeconds) * kMicrosPerSecond + d :
        s \in 0..MaxTime, d \in {0, 1}}

\* the records appendToSession writes for a at 0 s and 1 s (customer "X") and
\* for a1 at 1 s (customer "Y")
StoredBase ==
    appendToSession(EmptyStore,
        appendToSession(EmptyStore,
            appendToSession(EmptyStore, EmptyStore, <<88>>, 0, UidA, <<101>>,
                            <<113>>, <<>>, <<48>>).store,
            <<88>>, kMicrosPerSecond, UidA, <<101>>, <<113>>,
            << <<"l", <<55>>>> >>, <<49>>).store,
        <<89>>, kMicrosPerSecond, UidA1, <<101>>, <<113>>, <<>>, <<48>>).store

\* the key of the event of a at 0 s in StoredBase: "a~q~0"
StoredKey == UidA \o Tilde \o <<113>> \o Tilde \o <<48>>

\* values that are not what appendToSession wrote: an empty value, an evid
\* cut short, a parameter value cut short, a parameter id that is not
\* registered
DamagedValues ==
    { <<>>, <<0, 5, 101>>, <<0, 1, 101, 2, 3, 55>>, <<0, 1, 101, 50, 0>> }

\* the stores a core can be started on: StoredBase, StoredBase with a queued
\* envelope of an earlier flush, and StoredBase with the value of "a~q~0"
\* damaged
StoredStores ==
    {StoredBase,
     EnvelopeRecord(StoredBase, SessionQPrefix \o <<48>>,
                    EncodeEnvelope([customer |-> <<88>>, session_id |-> <<98>>,
                                    time |-> 0, session_data |-> <<1>>])).store}
      \cup {Put(StoredBase, StoredKey, v) : v \in DamagedValues}

\* ------------------------------------------------------- nested loop join
\* NestedLoopJoin (src/src/eventql/sql/expressions/table/nested_loop_join.cc)

kMaxInMemoryRows == 1000000

\* SValue: the empty tuple is NULL (SValue{}), <<v>> holds the integer v
NullValue == <<>>

\* Option<ValueExpression>: the empty tuple is None, <<e>> holds e
NoExpr == <<>>

\* Option::isEmpty
isEmpty(opt) == opt = <<>>

\* the value expressions of the plans: a reference to an input column, the
\* equality of two input columns, the equality of an input column and a
\* literal, and IS NULL on an input column
ColumnRef(i) == [op |-> "col", l |-> i, r |-> 0]

EqualsExpr(i, j) == [op |-> "eq", l |-> i, r |-> j]

EqualsLiteral(i, v) == [op |-> "eqc", l |-> i, r |-> v]

IsNullExpr(i) == [op |-> "isnull", l |-> i, r |-> 0]

\* a boolean as an SValue
BoolValue(b) == IF b THEN <<1>> ELSE <<0>>

\* VM::evaluate(txn, expr.program(), argc, argv, &out): the value of expr
\* over the input columns argv; a comparison with NULL is false
evaluate(expr, argv) ==
    CASE expr.op = "col" -> argv[expr.l]
      [] expr.op = "eq" ->
           BoolValue(/\ argv[expr.l] # NullValue
                     /\ argv[expr.l] = argv[expr.r])
      [] expr.op = "eqc" -> BoolValue(argv[expr.l] = <<expr.r>>)
      [] OTHER -> BoolValue(argv[expr.l] = NullValue)

\* SValue::getBool
getBool(v) == v # NullValue /\ v[1] # 0

\* the input columns of the expressions: column 0 of the base table and
\* column 0 of the joined table, in either order
InputMaps ==
    { << [table_idx |-> 0, column_idx |-> 0],
         [table_idx |-> 1, column_idx |-> 0] >>,
      << [table_idx |-> 1, column_idx |-> 0],
         [table_idx |-> 0, column_idx |-> 0] >> }

\* SELECT of every input column
SelectAll == <<ColumnRef(1), ColumnRef(2)>>

\* the join conditions: none, or base column = joined column
JoinConds == {NoExpr, <<EqualsExpr(1, 2)>>}

\* the WHERE expressions: none, input 1 = 1, input 2 IS NULL
WhereExprs == {NoExpr, <<EqualsLiteral(1, 1)>>, <<IsNullExpr(2)>>}

\* the rows of a table of one column holding 1 or 2, at most n rows
RowsUpTo(n) == UNION {[1..k -> {<<<<1>>>>, <<<<2>>>>}] : k \in 0..n}

\* the rows the base table expression returns
BaseTables == RowsUpTo(MaxBaseRows)

\* the rows the joined table expression returns
JoinedTables == RowsUpTo(MaxJoinedRows)

\* the plans the constructor is given: the OUTER cursor reads
\* join_cond_expr_.get() on every joined row, so an OUTER plan has a condition
JoinPlans ==
    {p \in [join_type : {"OUTER", "INNER", "CARTESIAN"},
            input_map : InputMaps,
            join_cond_expr : JoinConds,
            where_expr : WhereExprs] :
        p.join_type = "OUTER" => ~isEmpty(p.join_cond_expr)}

\* lines 85-98: the input columns taken from the current base row and a
\* joined row
FillInputs(input_map, base_row, joined_row) ==
    [i \in 1..Len(input_map) |->
        IF input_map[i].table_idx = 0
        THEN base_row[input_map[i].column_idx + 1]
        ELSE joined_row[input_map[i].column_idx + 1]]

\* lines 260-270: the joined table's input columns set to NULL, the others
\* left as they are
NullJoinedInputs(input_map, input_buf) ==
    [i \in 1..Len(input_map) |->
        IF input_map[i].table_idx = 1 THEN NullValue ELSE input_buf[i]]

\* lines 114-121: the select expressions evaluated over the input columns
SelectRow(select_exprs, input_buf) ==
    [i \in 1..Len(select_exprs) |-> evaluate(select_exprs[i], input_buf)]

\* an optional predicate over the input columns: an empty option passes
Passes(opt, input_buf) ==
    isEmpty(opt) \/ getBool(evaluate(opt[1], input_buf))

\* the test of lines 72, 134 and 210 with the test for position 0 left out
AtTableEndOnly(pos, size) == pos = size

\* lines 72, 134, 210: the cursor is before the first or behind the last
\* joined row
AtTableEnd(pos, size) == pos = 0 \/ pos = size

\* base_tbl_cursor_->next(...) returned true: the next base row is in
\* base_tbl_row_ and the joined table is rewound (lines 73, 75-77)
FetchBaseRow(c, base_tbl) ==
    [c EXCEPT !.joined_tbl_pos = 0,
              !.base_tbl_row = base_tbl[c.base_tbl_cursor + 1],
              !.base_tbl_cursor = c.base_tbl_cursor + 1]

\* the cursor returns true with the select expressions evaluated
Yield(c, select_exprs) ==
    [c |-> c, ret |-> TRUE, row |-> SelectRow(select_exprs, c.input_buf)]

\* the cursor returns false
Exhausted(c) == [c |-> c, ret |-> FALSE, row |-> <<>>]

\* lines 83-98 (145-160, 224-239): the cursor takes the next joined row and
\* fills the input columns from it and the current base row
TakeJoinedRow(c, p) ==
    [c EXCEPT !.joined_tbl_pos = c.joined_tbl_pos + 1,
              !.input_buf =
                  FillInputs(p.input_map, c.base_tbl_row,
                             p.joined_tbl_data[c.joined_tbl_pos + 1])]

\* the base cursor has no further row
BaseExhausted(c, p) == c.base_tbl_cursor >= Len(p.base_tbl)

RECURSIVE CartesianCursor(_, _)
RECURSIVE CartesianScan(_, _)

\* lines 100-123: the WHERE test of a pair and the row returned for it
CartesianRow(c, p) ==
    IF ~Passes(p.where_expr, c.input_buf)
    THEN CartesianScan(c, p)
    ELSE Yield(c, p.select_exprs)

\* lines 82-124: the loop over the joined rows behind joined_tbl_pos_
CartesianScan(c, p) ==
    IF c.joined_tbl_pos < Len(p.joined_tbl_data)
    THEN CartesianRow(TakeJoinedRow(c, p), p)
    ELSE CartesianCursor(c, p)

\* lines 70-126: one call of the cursor executeCartesianJoin returns
CartesianCursor(c, p) ==
    IF AtTableEnd(c.joined_tbl_pos, Len(p.joined_tbl_data))
    THEN IF BaseExhausted(c, p)
         THEN Exhausted([c EXCEPT !.joined_tbl_pos = 0])
         ELSE CartesianScan(FetchBaseRow(c, p.base_tbl), p)
    ELSE CartesianScan(c, p)

RECURSIVE InnerCursor(_, _)
RECURSIVE InnerScan(_, _)

\* lines 162-199: the join condition and WHERE tests of a pair and the row
\* returned for it
InnerRow(c, p) ==
    IF ~Passes(p.join_cond_expr, c.input_buf)
    THEN InnerScan(c, p)
    ELSE IF ~Passes(p.where_expr, c.input_buf)
    THEN InnerScan(c, p)
    ELSE Yield(c, p.select_exprs)

\* lines 144-200: the loop over the joined rows behind joined_tbl_pos_
InnerScan(c, p) ==
    IF c.joined_tbl_pos < Len(p.joined_tbl_data)
    THEN InnerRow(TakeJoinedRow(c, p), p)
    ELSE InnerCursor(c, p)

\* lines 132-202: one call of the cursor executeInnerJoin returns
InnerCursor(c, p) ==
    IF AtTableEnd(c.joined_tbl_pos, Len(p.joined_tbl_data))
    THEN IF BaseExhausted(c, p)
         THEN Exhausted([c EXCEPT !.joined_tbl_pos = 0])
         ELSE InnerScan(FetchBaseRow(c, p.base_tbl), p)
    ELSE InnerScan(c, p)

RECURSIVE OuterCursor(_, _)
RECURSIVE OuterScan(_, _)

\* lines 273-296: the WHERE test of the row in the input columns; a failing
\* row continues the for loop
OuterWhere(c, p) ==
    IF ~Passes(p.where_expr, c.input_buf)
    THEN OuterCursor(c, p)
    ELSE Yield(c, p.select_exprs)

\* lines 258-297: behind the loop over the joined rows, with the local match
OuterEmit(c, p, match) ==
    IF match \/ ~c.joined_tbl_row_found
    THEN IF ~c.joined_tbl_row_found
         THEN OuterWhere([c EXCEPT !.input_buf =
                              NullJoinedInputs(p.input_map, c.input_buf)], p)
         ELSE OuterWhere(c, p)
    ELSE OuterCursor(c, p)

\* lines 241-255: the join condition test of a pair
OuterRow(c, p) ==
    IF ~getBool(evaluate(p.join_cond_expr[1], c.input_buf))
    THEN OuterScan(c, p)
    ELSE OuterEmit([c EXCEPT !.joined_tbl_row_found = TRUE], p, TRUE)

\* lines 222-256: the loop over the joined rows behind joined_tbl_pos_
OuterScan(c, p) ==
    IF c.joined_tbl_pos < Len(p.joined_tbl_data)
    THEN OuterRow(TakeJoinedRow(c, p), p)
    ELSE OuterEmit(c, p, FALSE)

\* lines 208-299: one call of the cursor executeOuterJoin returns
OuterCursor(c, p) ==
    IF AtTableEnd(c.joined_tbl_pos, Len(p.joined_tbl_data))
    THEN IF BaseExhausted(c, p)
         THEN Exhausted([c EXCEPT !.joined_tbl_pos = 0,
                                  !.joined_tbl_row_found = FALSE])
         ELSE OuterScan([FetchBaseRow(c, p.base_tbl)
                            EXCEPT !.joined_tbl_row_found = FALSE], p)
    ELSE OuterScan(c, p)

\* lines 53-66: the cursor execute returns for a join type and condition
Dispatch(join_type, join_cond_expr) ==
    CASE join_type = "OUTER" -> "outer"
      [] join_type = "INNER" /\ ~isEmpty(join_cond_expr) -> "inner"
      [] join_type = "INNER" -> "cartesian"
      [] join_type = "CARTESIAN" -> "cartesian"
      [] OTHER -> "IllegalStateError"

\* ------------------------------------------------------------------- state

VARIABLES
    store,                  \* the records seen through the transaction
    sessions_flush_times,   \* uid -> flush deadline in micros
    stat_loglines_total,
    stat_loglines_invalid,
    stat_joined_sessions,
    dry_run,
    bootstrap,              \* "empty": the core was constructed over an empty
                            \* store; "pending": over a store with records,
                            \* importTimeoutList not yet run; "done": it ran
    nops,                   \* number of calls made
    last,                   \* the last call: its arguments, outcome and the
                            \* state it started from
    \* the fields of a NestedLoopJoin
    join_type_,
    input_map_,
    input_buf_,
    select_exprs_,
    join_cond_expr_,
    where_expr_,
    base_tbl_,              \* the rows base_tbl_->execute() returns
    base_tbl_cursor_,       \* the number of rows base_tbl_cursor_ returned
    base_tbl_row_,
    joined_tbl_,            \* the rows joined_tbl_->execute() returns
    joined_tbl_data_,
    joined_tbl_pos_,
    joined_tbl_row_found_,
    result_cursor,          \* the cursor execute() returned: "none" before
                            \* the call, then "cartesian", "inner" or "outer"
    yielded,                \* the rows of the calls that returned true
    cursor_done             \* a call of the cursor returned false

\* the state of the LogJoin core
coreVars == <<store, sessions_flush_times, stat_loglines_total,
              stat_loglines_invalid, stat_joined_sessions, dry_run, bootstrap,
              nops, last>>

\* the state of the NestedLoopJoin
joinVars == <<join_type_, input_map_, input_buf_, select_exprs_,
              join_cond_expr_, where_expr_, base_tbl_, base_tbl_cursor_,
              base_tbl_row_, joined_tbl_, joined_tbl_data_, joined_tbl_pos_,
              joined_tbl_row_found_, result_cursor, yielded, cursor_done>>

vars == <<coreVars, joinVars>>

\* no NestedLoopJoin has been constructed
NoJoin ==
    /\ join_type_ = "NONE"
    /\ input_map_ = <<>>
    /\ input_buf_ = <<>>
    /\ select_exprs_ = <<>>
    /\ join_cond_expr_ = NoExpr
    /\ where_expr_ = NoExpr
    /\ base_tbl_ = <<>>
    /\ base_tbl_cursor_ = 0
    /\ base_tbl_row_ = <<>>
    /\ joined_tbl_ = <<>>
    /\ joined_tbl_data_ = <<>>
    /\ joined_tbl_pos_ = 0
    /\ joined_tbl_row_found_ = FALSE
    /\ result_cursor = "none"
    /\ yielded = <<>>
    /\ cursor_done = FALSE

NoLine == [pre |-> <<>>, params |-> <<>>]

\* the record of a call, before its outcome is known
Call(op) ==
    [op |-> op, err |-> "none", customer |-> <<>>, time |-> 0,
     params |-> <<>>, hex |-> <<>>, line |-> NoLine, t |-> 0, evid |-> <<>>,
     appended |-> FALSE, sessions |-> <<>>, closed |-> TRUE,
     store0 |-> store, deadlines0 |-> sessions_flush_times,
     total0 |-> stat_loglines_total, invalid0 |-> stat_loglines_invalid,
     joined0 |-> stat_joined_sessions]

Init ==
    /\ store = EmptyStore
    /\ sessions_flush_times = EmptyStore
    /\ stat_loglines_total = 0
    /\ stat_loglines_invalid = 0
    /\ stat_joined_sessions = 0
    /\ dry_run \in BOOLEAN
    /\ bootstrap = "empty"
    /\ nops = 0
    /\ last = Call("init")
    /\ NoJoin

\* a core constructed over a store that earlier runs wrote
InitStored ==
    /\ store \in StoredStores
    /\ sessions_flush_times = EmptyStore
    /\ stat_loglines_total = 0
    /\ stat_loglines_invalid = 0
    /\ stat_joined_sessions = 0
    /\ dry_run \in BOOLEAN
    /\ bootstrap = "pending"
    /\ nops = 0
    /\ last = Call("init")
    /\ NoJoin

\* InsertOutcome with loglines_total counting the accepted lines only
InsertOutcomeUncounted(op, line, customer_key, time, params, hex, r) ==
    /\ (r.appended /\ r.err = "none") \/ hex = <<48>>
    /\ store' = r.store
    /\ sessions_flush_times' = r.deadlines
    /\ stat_loglines_total' =
         IF r.err = "none" THEN stat_loglines_total + 1
         ELSE stat_loglines_total
    /\ stat_loglines_invalid' =
         IF r.err = "none" THEN stat_loglines_invalid
         ELSE stat_loglines_invalid + 1
    /\ last' = [Call(op) EXCEPT !.err = r.err, !.customer = customer_key,
                  !.time = time, !.params = params, !.line = line,
                  !.appended = r.appended,
                  !.hex = IF r.appended /\ r.err = "none" THEN hex ELSE <<>>]
    /\ UNCHANGED <<stat_joined_sessions, dry_run, bootstrap>>
    /\ UNCHANGED joinVars

\* the state after the try block of insertLogline ended as r; rnd_.hex64()
\* is drawn only when appendToSession reaches its store writes
InsertOutcome(op, line, customer_key, time, params, hex, r) ==
    /\ (r.appended /\ r.err = "none") \/ hex = <<48>>
    /\ store' = r.store
    /\ sessions_flush_times' = r.deadlines
    /\ stat_loglines_total' = stat_loglines_total + 1
    /\ stat_loglines_invalid' =
         IF r.err = "none" THEN stat_loglines_invalid
         ELSE stat_loglines_invalid + 1
    /\ last' = [Call(op) EXCEPT !.err = r.err, !.customer = customer_key,
                  !.time = time, !.params = params, !.line = line,
                  !.appended = r.appended,
                  !.hex = IF r.appended /\ r.err = "none" THEN hex ELSE <<>>]
    /\ UNCHANGED <<stat_joined_sessions, dry_run, bootstrap>>
    /\ UNCHANGED joinVars

\* the body of insertLogline(customer_key, time, body, txn) from line 105 on
InsertEffect(op, line, customer_key, time, params, hex) ==
    InsertOutcome(op, line, customer_key, time, params, hex,
                  insertLogline(sessions_flush_times, store, customer_key,
                                time, params, hex))

\* LogJoin::insertLogline(customer_key, time, log_line, txn)
InsertLogline ==
    /\ nops < MaxOps
    /\ nops' = nops + 1
    /\ \E in \in InsertInputs, hex \in Hex64 :
         InsertEffect("insert", NoLine, in.customer, in.time, in.params, hex)

\* the outcome r of insertLogline once the caller has abandoned the
\* transaction: the pending writes are discarded and the store is st again,
\* the deadlines are those the call left
Abandoned(r, st) == [r EXCEPT !.store = st]

\* the calls of insertLogline whose transaction the caller abandons
AbortInputs ==
    {[customer |-> <<88>>, time |-> 0, params |-> b] :
        b \in { <<CParam(UidA), EParam(<<113>>)>>,
                <<CParam(UidAE), EParam(<<113>>)>> }}

\* LogJoin::insertLogline(customer_key, time, log_line, txn) followed by the
\* caller abandoning txn
InsertLoglineAborted ==
    /\ nops < MaxOps
    /\ nops' = nops + 1
    /\ \E in \in AbortInputs :
         InsertOutcome("insertAbort", NoLine, in.customer, in.time, in.params,
                       <<48>>,
                       Abandoned(insertLogline(sessions_flush_times, store,
                                               in.customer, in.time, in.params,
                                               <<48>>),
                                 store))

\* Raise with the line counted as invalid before the exception leaves
RaiseCounted(op, line, err) ==
    /\ last' = [Call(op) EXCEPT !.err = err, !.line = line]
    /\ stat_loglines_invalid' = stat_loglines_invalid + 1
    /\ UNCHANGED <<store, sessions_flush_times, stat_loglines_total,
                   stat_joined_sessions, dry_run, bootstrap>>
    /\ UNCHANGED joinVars

\* a call that raises before it changes anything
Raise(op, line, err) ==
    /\ last' = [Call(op) EXCEPT !.err = err, !.line = line]
    /\ UNCHANGED <<store, sessions_flush_times, stat_loglines_total,
                   stat_loglines_invalid, stat_joined_sessions, dry_run,
                   bootstrap>>
    /\ UNCHANGED joinVars

\* LogJoin::insertLogline(log_line, txn): the pipe wrapper
InsertLoglineRaw ==
    /\ nops < MaxOps
    /\ nops' = nops + 1
    /\ \E line \in RawLines, hex \in Hex64 :
         IF Len(line.pre) < 2
         THEN hex = <<48>> /\ Raise("insertRaw", line, "RuntimeError")
         ELSE IF StoUL(line.pre[2]) < 0
         THEN hex = <<48>> /\ Raise("insertRaw", line, "InvalidArgument")
         ELSE InsertEffect("insertRaw", line, line.pre[1],
                           StoUL(line.pre[2]) * kMicrosPerSecond,
                           line.params, hex)

\* the state after the loop of flush ended as acc
FlushOutcome(t, acc) ==
    /\ store' = acc.store
    /\ sessions_flush_times' =
         [u \in DOMAIN sessions_flush_times \ acc.erased |->
             sessions_flush_times[u]]
    /\ stat_loglines_invalid' = stat_loglines_invalid + acc.invalid
    /\ stat_joined_sessions' = stat_joined_sessions + acc.joined
    /\ last' = [Call("flush") EXCEPT !.t = t, !.sessions = acc.sessions,
                  !.closed = \A i \in DOMAIN acc.sessions :
                                 acc.sessions[i].closed,
                  !.err = IF acc.err THEN "BufferOverflow" ELSE "none"]
    /\ UNCHANGED <<stat_loglines_total, dry_run, bootstrap>>
    /\ UNCHANGED joinVars

\* LogJoin::flush(txn, stream_time)
Flush ==
    /\ nops < MaxOps
    /\ nops' = nops + 1
    /\ \E t \in FlushTimes :
         \E order \in Orders(Due(sessions_flush_times, t)),
            outcomes \in [Due(sessions_flush_times, t) -> TargetOutcomes],
            hexes \in [Due(sessions_flush_times, t) -> Hex128] :
              FlushOutcome(t, FlushLoop(order,
                                        [store |-> store, invalid |-> 0,
                                         joined |-> 0, erased |-> {},
                                         sessions |-> <<>>, err |-> FALSE],
                                        outcomes, hexes, dry_run))

\* the state after importTimeoutList ended as r
ImportOutcome(r) ==
    /\ sessions_flush_times' = r.deadlines
    /\ bootstrap' = IF r.err THEN bootstrap ELSE "done"
    /\ last' = [Call("import") EXCEPT !.closed = r.closed,
                  !.err = IF r.err THEN "BufferOverflow" ELSE "none"]
    /\ UNCHANGED <<store, stat_loglines_total, stat_loglines_invalid,
                   stat_joined_sessions, dry_run>>
    /\ UNCHANGED joinVars

\* LogJoin::importTimeoutList(txn)
ImportTimeoutList ==
    /\ nops < MaxOps
    /\ nops' = nops + 1
    /\ ImportOutcome(importTimeoutList(sessions_flush_times, store))

\* the process ends and a new LogJoin is constructed over the same store,
\* with the same shard, dry_run flag and target
Restart ==
    /\ nops < MaxOps
    /\ sessions_flush_times' = EmptyStore
    /\ stat_loglines_total' = 0
    /\ stat_loglines_invalid' = 0
    /\ stat_joined_sessions' = 0
    /\ bootstrap' = IF DOMAIN store = {} THEN "empty" ELSE "pending"
    /\ last' = Call("restart")
    /\ UNCHANGED <<store, dry_run, nops>>
    /\ UNCHANGED joinVars

\* the state after appendToSession ended as r
AppendOutcome(time, evid, logline, hex, r) ==
    /\ store' = r.store
    /\ sessions_flush_times' = r.deadlines
    /\ last' = [Call("append") EXCEPT !.err = r.err, !.customer = <<88>>,
                  !.time = time, !.evid = evid, !.params = logline,
                  !.hex = hex, !.appended = TRUE]
    /\ UNCHANGED <<stat_loglines_total, stat_loglines_invalid,
                   stat_joined_sessions, dry_run, bootstrap>>
    /\ UNCHANGED joinVars

\* LogJoin::appendToSession called with an event of uid "a", type q and
\* customer "X"
AppendToSession ==
    /\ nops < MaxCodecOps
    /\ nops' = nops + 1
    /\ \E s \in CodecTimes, evid \in CodecEvids, logline \in CodecLoglines,
          hex \in Hex64 :
         AppendOutcome(s * kMicrosPerSecond, evid, logline, hex,
                       appendToSession(sessions_flush_times, store, <<88>>,
                                       s * kMicrosPerSecond, UidA, evid,
                                       <<113>>, logline, hex))

Next ==
    \/ InsertLogline
    \/ InsertLoglineRaw
    \/ InsertLoglineAborted
    \/ Flush
    \/ ImportTimeoutList
    \/ Restart

Spec == Init /\ [][Next]_vars

\* the calls made on a core started over a stored store, before any insert
NextStored == ImportTimeoutList \/ Flush

SpecStored == InitStored /\ [][NextStored]_vars

\* insertLogline called as long as no flush has been called
InsertLive ==
    /\ last.op # "flush"
    /\ nops < MaxOps
    /\ nops' = nops + 1
    /\ \E in \in LiveInputs, hex \in Hex64 :
         InsertEffect("insert", NoLine, in.customer, in.time, in.params, hex)

\* the functions of [S -> T] that send no two elements to the same value
Injective(S, T) == {f \in [S -> T] : \A x, y \in S : f[x] = f[y] => x = y}

\* LogJoin::flush called with a stream time past every deadline, while
\* deadlines has entries; the JoinTarget returns, and no two envelopes draw
\* the same key
FlushLate ==
    /\ DOMAIN sessions_flush_times # {}
    /\ UNCHANGED nops
    /\ \E t \in FlushTimes :
         /\ Due(sessions_flush_times, t) = DOMAIN sessions_flush_times
         /\ \E order \in Orders(Due(sessions_flush_times, t)),
               hexes \in Injective(Due(sessions_flush_times, t), LiveHex128) :
                 FlushOutcome(t, FlushLoop(order,
                                           [store |-> store, invalid |-> 0,
                                            joined |-> 0, erased |-> {},
                                            sessions |-> <<>>, err |-> FALSE],
                                           [u \in Due(sessions_flush_times, t)
                                              |-> [throws |-> FALSE,
                                                   data |-> <<1>>]],
                                           hexes, dry_run))

\* a core that is not in dry-run mode
InitLive == Init /\ ~dry_run

\* inserts, then flushes past every deadline
NextLive == InsertLive \/ FlushLate

\* flush is called again and again: a flush past every deadline that can be
\* made is made
SpecLive == InitLive /\ [][NextLive]_vars /\ WF_vars(FlushLate)

\* the codec: appendToSession on events drawn from the codec inputs
NextCodec == AppendToSession

SpecCodec == Init /\ [][NextCodec]_vars

\* a vector of n default-constructed SValues
NullRow(n) == [i \in 1..n |-> NullValue]

\* getNumColumns() of the base table's cursor
BaseNumColumns == 1

\* NestedLoopJoin::NestedLoopJoin: the fields after construction;
\* joined_tbl_row_found_ has no initializer
Constructed(p, base, joined) ==
    /\ join_type_ = p.join_type
    /\ input_map_ = p.input_map
    /\ input_buf_ = NullRow(Len(p.input_map))
    /\ select_exprs_ = SelectAll
    /\ join_cond_expr_ = p.join_cond_expr
    /\ where_expr_ = p.where_expr
    /\ base_tbl_ = base
    /\ base_tbl_cursor_ = 0
    /\ base_tbl_row_ = <<>>
    /\ joined_tbl_ = joined
    /\ joined_tbl_data_ = <<>>
    /\ joined_tbl_pos_ = 0
    /\ joined_tbl_row_found_ \in BOOLEAN
    /\ result_cursor = "none"
    /\ yielded = <<>>
    /\ cursor_done = FALSE

\* a NestedLoopJoin constructed over two table expressions
InitJoin ==
    /\ store = EmptyStore
    /\ sessions_flush_times = EmptyStore
    /\ stat_loglines_total = 0
    /\ stat_loglines_invalid = 0
    /\ stat_joined_sessions = 0
    /\ dry_run = FALSE
    /\ bootstrap = "empty"
    /\ nops = 0
    /\ last = Call("init")
    /\ \E p \in JoinPlans, base \in BaseTables, joined \in JoinedTables :
         Constructed(p, base, joined)

\* NestedLoopJoin::execute
Execute ==
    /\ join_type_ # "NONE"
    /\ result_cursor = "none"
    /\ joined_tbl_data_' = joined_tbl_
    /\ base_tbl_row_' = NullRow(BaseNumColumns)
    /\ result_cursor' =
         IF Len(joined_tbl_) >= kMaxInMemoryRows
         THEN "RuntimeError"
         ELSE Dispatch(join_type_, join_cond_expr_)
    /\ UNCHANGED <<join_type_, input_map_, input_buf_, select_exprs_,
                   join_cond_expr_, where_expr_, base_tbl_, base_tbl_cursor_,
                   joined_tbl_, joined_tbl_pos_, joined_tbl_row_found_,
                   yielded, cursor_done>>
    /\ UNCHANGED coreVars

\* the fields the cursors only read
JoinPlan ==
    [input_map |-> input_map_, select_exprs |-> select_exprs_,
     join_cond_expr |-> join_cond_expr_, where_expr |-> where_expr_,
     base_tbl |-> base_tbl_, joined_tbl_data |-> joined_tbl_data_]

\* the fields the cursors write
CursorState ==
    [base_tbl_cursor |-> base_tbl_cursor_, base_tbl_row |-> base_tbl_row_,
     joined_tbl_pos |-> joined_tbl_pos_,
     joined_tbl_row_found |-> joined_tbl_row_found_,
     input_buf |-> input_buf_]

\* the state after a call of the cursor ended as r
CursorOutcome(r) ==
    /\ base_tbl_cursor_' = r.c.base_tbl_cursor
    /\ base_tbl_row_' = r.c.base_tbl_row
    /\ joined_tbl_pos_' = r.c.joined_tbl_pos
    /\ joined_tbl_row_found_' = r.c.joined_tbl_row_found
    /\ input_buf_' = r.c.input_buf
    /\ yielded' = IF r.ret THEN Append(yielded, r.row) ELSE yielded
    /\ cursor_done' = ~r.ret
    /\ UNCHANGED <<join_type_, input_map_, select_exprs_, join_cond_expr_,
                   where_expr_, base_tbl_, joined_tbl_, joined_tbl_data_,
                   result_cursor>>
    /\ UNCHANGED coreVars

\* next() on the cursor of executeCartesianJoin, called until it returns
\* false
CartesianNext ==
    /\ result_cursor = "cartesian"
    /\ ~cursor_done
    /\ CursorOutcome(CartesianCursor(CursorState, JoinPlan))

\* next() on the cursor of executeInnerJoin
InnerNext ==
    /\ result_cursor = "inner"
    /\ ~cursor_done
    /\ CursorOutcome(InnerCursor(CursorState, JoinPlan))

\* next() on the cursor of executeOuterJoin
OuterNext ==
    /\ result_cursor = "outer"
    /\ ~cursor_done
    /\ CursorOutcome(OuterCursor(CursorState, JoinPlan))

NextJoin ==
    \/ Execute
    \/ CartesianNext
    \/ InnerNext
    \/ OuterNext

\* a NestedLoopJoin executed and its result cursor read to the end
SpecJoin == InitJoin /\ [][NextJoin]_vars

\* ------------------------------------------------------ reading the state

Max(a, b) == IF a > b THEN a ELSE b

IdleMicros == kSessionIdleTimeoutSeconds * kMicrosPerSecond

\* the keys "<u>~..." of user u in store st, and its event records among them
UserKeys(st, u) == {k \in DOMAIN st : BeginsWith(k, u \o Tilde)}

EventKeys(st, u) == UserKeys(st, u) \ {u \o CustSuffix}

\* the event times (micros) of the records of user u in st
EventTimes(st, u) == {DecodeEvent(st[k]).time : k \in EventKeys(st, u)}

MaxOf(S) == CHOOSE x \in S : \A y \in S : y <= x

MinOf(S) == CHOOSE x \in S : \A y \in S : x <= y

\* the records of user u are the same in st1 and st2
SameRecords(st1, st2, u) ==
    /\ UserKeys(st1, u) = UserKeys(st2, u)
    /\ \A k \in UserKeys(st1, u) : st1[k] = st2[k]

\* the users with an event record in st
UsersOf(st) == {SubSeq(k, 1, Find(k, 126) - 1) : k \in
                  {x \in DOMAIN st : Find(x, 126) > 0
                                      /\ ~BeginsWith(x, SessionQPrefix)}}

\* the keys of the output queue in st
QueueKeys(st) == {k \in DOMAIN st : BeginsWith(k, SessionQPrefix)}

\* the last call ran insertLogline(customer_key, time, body, txn)
InsertRan ==
    \/ last.op = "insert"
    \/ last.op = "insertRaw" /\ last.err \notin {"RuntimeError", "InvalidArgument"}

\* the c parameter of the last insert is present and splits into uid and eid
GoodC(params) ==
    /\ getParam(params, "c").found
    /\ Find(getParam(params, "c").value, 126) > 0
    /\ Len(UidOf(getParam(params, "c").value)) > 0
    /\ Len(EidOf(getParam(params, "c").value)) > 0

\* the e parameter is present, one character long and one of q, v, c, u
GoodE(params) ==
    /\ getParam(params, "e").found
    /\ Len(getParam(params, "e").value) = 1
    /\ getParam(params, "e").value[1] \in {113, 118, 99, 117}

LastUid == UidOf(getParam(last.params, "c").value)

\* the sessions of the last flush that wrote an envelope for user u
EnvelopesFor(u) ==
    {i \in DOMAIN last.sessions :
        last.sessions[i].uid = u /\ last.sessions[i].written # <<>>}

\* ------------------------------------------------------------------ claims

\* C1: two stored events of one uid with times t1 < t2, both known to the
\* core (stored by it, or imported): a flush with stream_time in
\* (t1 + idle, t2 + idle] writes no envelope for the uid and leaves its
\* records in the store, and its deadline entry in place.
C1_IdleExtension ==
    (last.op = "flush" /\ bootstrap # "pending") =>
        \A u \in UsersOf(last.store0) :
            ( /\ Cardinality(EventTimes(last.store0, u)) >= 2
              /\ u \in DOMAIN last.deadlines0
              /\ last.t > MinOf(EventTimes(last.store0, u)) + IdleMicros
              /\ last.t <= MaxOf(EventTimes(last.store0, u)) + IdleMicros )
            => /\ EnvelopesFor(u) = {}
               /\ \A i \in DOMAIN last.sessions : last.sessions[i].uid # u
               /\ u \in DOMAIN sessions_flush_times

\* C2: a successful append of an event with time T for uid u leaves
\* deadlines[u] = max(previous deadlines[u], T + idle), and T + idle when u
\* had no entry.
C2_TouchIsMax ==
    (InsertRan /\ last.appended /\ last.err = "none") =>
        /\ LastUid \in DOMAIN sessions_flush_times
        /\ sessions_flush_times[LastUid] =
             IF LastUid \in DOMAIN last.deadlines0
             THEN Max(last.deadlines0[LastUid], last.time + IdleMicros)
             ELSE last.time + IdleMicros

\* C3: flush(txn, t) leaves every user with deadline >= t untouched (entry,
\* records, no envelope) and calls flushSession for every user with
\* deadline < t, whatever the uids are.
C3_FlushFrame ==
    (last.op = "flush" /\ last.err = "none") =>
        \A u \in DOMAIN last.deadlines0 :
            IF last.deadlines0[u] >= last.t
            THEN /\ u \in DOMAIN sessions_flush_times
                 /\ sessions_flush_times[u] = last.deadlines0[u]
                 /\ SameRecords(last.store0, store, u)
                 /\ \A i \in DOMAIN last.sessions : last.sessions[i].uid # u
            ELSE \E i \in DOMAIN last.sessions : last.sessions[i].uid = u

\* the case of C4: session record s of a flush that is not a dry run is of a
\* user with a cust record and a decodable event, and the target returned
C4_Case(s) ==
    /\ ~dry_run
    /\ (s.uid \o CustSuffix) \in DOMAIN s.store0
    /\ \E k \in EventKeys(s.store0, s.uid) :
          DecodeEvent(s.store0[k]).hdr /\ DecodeEvent(s.store0[k]).ok
    /\ s.called /\ ~s.target_threw

\* C4: in that case flushSession writes exactly one record, under a key
\* "__sessionq-...", holding session_id = uid, customer = the stored customer
\* key, time = the earliest event time of the user, session_data = the
\* target's bytes.
C4_Envelope ==
    last.op = "flush" =>
        \A i \in DOMAIN last.sessions :
            C4_Case(last.sessions[i]) =>
                /\ Len(last.sessions[i].written) = 1
                /\ BeginsWith(last.sessions[i].written[1].key, SessionQPrefix)
                /\ QueueKeys(last.sessions[i].store1) =
                     QueueKeys(last.sessions[i].store0)
                       \cup {last.sessions[i].written[1].key}
                /\ last.sessions[i].store1[last.sessions[i].written[1].key] =
                     last.sessions[i].written[1].value
                /\ DecodeEnvelope(last.sessions[i].written[1].value) =
                     [customer |->
                        last.sessions[i].store0[last.sessions[i].uid \o CustSuffix],
                      session_id |-> last.sessions[i].uid,
                      time |-> MinOf(EventTimes(last.sessions[i].store0,
                                                last.sessions[i].uid)),
                      session_data |-> last.sessions[i].data]

\* C5: when flush(txn, t) returns, every uid left in deadlines has a deadline
\* >= t, and every uid whose deadline was < t has no entry and no record.
C5_FlushBoundary ==
    (last.op = "flush" /\ last.err = "none") =>
        /\ \A u \in DOMAIN sessions_flush_times :
              sessions_flush_times[u] >= last.t
        /\ \A u \in DOMAIN last.deadlines0 :
              last.deadlines0[u] < last.t =>
                  /\ u \notin DOMAIN sessions_flush_times
                  /\ UserKeys(store, u) = {}

\* a flush that found a user with records due and left another user in place
C5_Witness ==
    /\ last.op = "flush"
    /\ \E u \in DOMAIN last.deadlines0 :
          last.deadlines0[u] < last.t /\ UserKeys(last.store0, u) # {}
    /\ \E v \in DOMAIN sessions_flush_times : UserKeys(store, v) # {}

\* C6: after flushSession(u) returns, no key beginning with "<u>~" is left,
\* whether or not an envelope was written.
C6_ScanAndDrain ==
    last.op = "flush" =>
        \A i \in DOMAIN last.sessions :
            ~last.sessions[i].err =>
                UserKeys(last.sessions[i].store1, last.sessions[i].uid) = {}

\* a flushSession that drained event and cust records and wrote no envelope,
\* after one in the same flush that wrote one
C6_Witness ==
    /\ last.op = "flush"
    /\ \E i, j \in DOMAIN last.sessions :
          /\ EventKeys(last.sessions[i].store0, last.sessions[i].uid) # {}
          /\ (last.sessions[i].uid \o CustSuffix) \in DOMAIN last.sessions[i].store0
          /\ last.sessions[i].written = <<>>
          /\ last.sessions[j].written # <<>>

\* C7: an insert with a well formed c parameter naming a uid the shard
\* rejects returns without error, leaves store and deadlines alone, adds 1 to
\* loglines_total and nothing to loglines_invalid, whatever its e parameter.
C7_ShardDrop ==
    (InsertRan /\ GoodC(last.params) /\ ~testUID(LastUid)) =>
        /\ last.err = "none"
        /\ store = last.store0
        /\ sessions_flush_times = last.deadlines0
        /\ stat_loglines_total = last.total0 + 1
        /\ stat_loglines_invalid = last.invalid0

\* a shard drop of a line without a valid e parameter, on a non-empty store
C7_Witness ==
    /\ InsertRan /\ GoodC(last.params) /\ ~testUID(LastUid)
    /\ ~GoodE(last.params)
    /\ DOMAIN last.store0 # {}

\* what C8 and its amendment say of a rejected insert
C8_Rejected ==
    /\ last.err = "ParseError"
    /\ stat_loglines_invalid = last.invalid0 + 1
    /\ store = last.store0
    /\ sessions_flush_times = last.deadlines0

\* C8 as stated: an insert whose c or e parameter is missing or malformed
\* fails with ParseError, adds 1 to loglines_invalid, stores nothing and
\* leaves deadlines alone.
C8_Original ==
    (InsertRan /\ (~GoodC(last.params) \/ ~GoodE(last.params))) => C8_Rejected

\* C8 amended: the same for a missing or malformed c parameter, and for a
\* missing or invalid e parameter when the shard accepts the uid.
C8_ParseError ==
    (InsertRan /\ (~GoodC(last.params)
                     \/ (testUID(LastUid) /\ ~GoodE(last.params))))
        => C8_Rejected

\* an insert for an accepted uid with an e parameter outside q, v, c, u, on a
\* store that holds records
C8_Witness ==
    /\ InsertRan /\ GoodC(last.params) /\ testUID(LastUid)
    /\ getParam(last.params, "e").found
    /\ Len(getParam(last.params, "e").value) = 1
    /\ ~GoodE(last.params)
    /\ DOMAIN last.store0 # {}

\* C9 as stated: insert(raw_line) of a line with fewer than two "|" fails
\* with ParseError and adds 1 to loglines_invalid, and stores nothing.
C9_Original ==
    (last.op = "insertRaw" /\ Len(last.line.pre) < 2) =>
        /\ last.err = "ParseError"
        /\ stat_loglines_invalid = last.invalid0 + 1
        /\ store = last.store0

\* C9 amended: it fails with RuntimeError before any counter is touched:
\* loglines_total, loglines_invalid, the store and deadlines are unchanged.
C9_RuntimeError ==
    (last.op = "insertRaw" /\ Len(last.line.pre) < 2) =>
        /\ last.err = "RuntimeError"
        /\ stat_loglines_invalid = last.invalid0
        /\ stat_loglines_total = last.total0
        /\ store = last.store0
        /\ sessions_flush_times = last.deadlines0

\* a raw line with one "|" arriving after lines were counted and stored
C9_Witness ==
    /\ last.op = "insertRaw" /\ Len(last.line.pre) = 1
    /\ last.total0 > 0
    /\ DOMAIN last.store0 # {}

\* C10: joined_sessions is not incremented for a session whose JoinTarget
\* call raised; it grows by 1 exactly for the sessions whose call returned.
C10_JoinedOnlyOnSuccess ==
    last.op = "flush" =>
        /\ \A i \in DOMAIN last.sessions :
              /\ last.sessions[i].target_threw => last.sessions[i].joined = 0
              /\ last.sessions[i].joined = 1 =>
                    last.sessions[i].called /\ ~last.sessions[i].target_threw
        /\ stat_joined_sessions = last.joined0 +
              Cardinality({i \in DOMAIN last.sessions :
                              last.sessions[i].called
                                /\ ~last.sessions[i].target_threw})

\* the queue records of st2 are among those of st1, with the same values
NoQueueWrite(st1, st2) ==
    \A k \in QueueKeys(st2) : k \in DOMAIN st1 /\ st2[k] = st1[k]

\* what C11 says of session record i of the last flush
C11_Session(i) ==
    /\ ~last.sessions[i].err
    /\ last.sessions[i].written = <<>>
    /\ NoQueueWrite(last.sessions[i].store0, last.sessions[i].store1)
    /\ UserKeys(last.sessions[i].store1, last.sessions[i].uid) = {}
    /\ i < Cardinality(Due(last.deadlines0, last.t)) => Len(last.sessions) > i

\* C11: when the JoinTarget raises in flushSession, the exception does not
\* leave flushSession, no "__sessionq-" record is written for the session,
\* the user's records are deleted, and flush goes on to the other due users.
C11_TargetFailure ==
    last.op = "flush" =>
        /\ \A i \in DOMAIN last.sessions :
              last.sessions[i].target_threw => C11_Session(i)
        /\ (\A i \in DOMAIN last.sessions : ~last.sessions[i].err)
              => last.err = "none"

\* a flush whose first session had events and a raising target, and whose
\* second session wrote an envelope
C11_Witness ==
    /\ last.op = "flush"
    /\ Len(last.sessions) >= 2
    /\ last.sessions[1].target_threw
    /\ EventKeys(last.sessions[1].store0, last.sessions[1].uid) # {}
    /\ last.sessions[2].written # <<>>

\* the case of C12: the store holds no "<uid>~cust" record for the user of
\* session record s, or one with an empty value
C12_Case(s) ==
    \/ (s.uid \o CustSuffix) \notin DOMAIN s.store0
    \/ s.store0[s.uid \o CustSuffix] = <<>>

\* C12: in that case flushSession does not call the JoinTarget, writes no
\* envelope, does not count a joined session, and still deletes the user's
\* records.
C12_MissingCustomerKey ==
    last.op = "flush" =>
        \A i \in DOMAIN last.sessions :
            (C12_Case(last.sessions[i]) /\ ~last.sessions[i].err) =>
                /\ ~last.sessions[i].called
                /\ last.sessions[i].written = <<>>
                /\ last.sessions[i].joined = 0
                /\ UserKeys(last.sessions[i].store1, last.sessions[i].uid) = {}

\* what C13 says of session record i of a dry-run flush
C13_Session(i) ==
    /\ last.sessions[i].session.customer_key # <<>> => last.sessions[i].called
    /\ last.sessions[i].written = <<>>
    /\ UserKeys(last.sessions[i].store1, last.sessions[i].uid) = {}
    /\ last.sessions[i].uid \notin DOMAIN sessions_flush_times
    /\ last.sessions[i].called => last.sessions[i].joined = 1

\* C13: in dry-run mode flushSession calls the JoinTarget and writes no
\* "__sessionq-" record; the user's records are deleted, flush removes the
\* deadline entry, and joined_sessions is incremented.
C13_DryRun ==
    (dry_run /\ last.op = "flush") =>
        /\ NoQueueWrite(last.store0, store)
        /\ \A i \in DOMAIN last.sessions :
              ~last.sessions[i].err => C13_Session(i)
        /\ stat_joined_sessions = last.joined0 +
              Cardinality({i \in DOMAIN last.sessions : last.sessions[i].called})

\* a dry-run flush that called the JoinTarget on a session with events, the
\* target returning
C13_Witness ==
    /\ dry_run /\ last.op = "flush"
    /\ \E i \in DOMAIN last.sessions :
          /\ last.sessions[i].called /\ ~last.sessions[i].target_threw
          /\ EventKeys(last.sessions[i].store0, last.sessions[i].uid) # {}

\* the value v of an event record does not decode: a read of its header or
\* of a parameter runs past its end, or a parameter id is not registered
DecodeFails(v) == ~DecodeEvent(v).hdr \/ ~DecodeEvent(v).ok

\* the event records of the user of session record s that do not decode
BadEventKeys(s) ==
    {k \in EventKeys(s.store0, s.uid) : DecodeFails(s.store0[k])}

\* the event of the record at key k of store st is among the events of session
InSession(session, st, k) ==
    \E j \in DOMAIN session.events :
        /\ session.events[j].time = DecodeEvent(st[k]).time
        /\ session.events[j].evid = DecodeEvent(st[k]).evid
        /\ session.events[j].logline = DecodeEvent(st[k]).logline

\* what C14 says of session record s, which has a record that does not decode
C14_Session(s) ==
    /\ ~s.err
    /\ s.invalid = Cardinality(BadEventKeys(s))
    /\ UserKeys(s.store1, s.uid) = {}
    /\ \A k \in EventKeys(s.store0, s.uid) \ BadEventKeys(s) :
          InSession(s.session, s.store0, k)
    /\ ( /\ ~dry_run
         /\ EventKeys(s.store0, s.uid) # BadEventKeys(s)
         /\ (s.uid \o CustSuffix) \in DOMAIN s.store0
         /\ s.store0[s.uid \o CustSuffix] # <<>> )
          => (s.called /\ (~s.target_threw => s.written # <<>>))

\* C14: a stored event that does not decode (header cut short, value cut
\* short, unknown parameter id) adds 1 to loglines_invalid and is skipped;
\* the session is not aborted: the other events are decoded, every record of
\* the user is deleted and the envelope is made from the events that decoded.
C14_DecodeErrorSkipped ==
    last.op = "flush" =>
        \A i \in DOMAIN last.sessions :
            BadEventKeys(last.sessions[i]) # {} => C14_Session(last.sessions[i])

\* C15: every call of flush (flushSession) and importTimeoutList has closed
\* the cursors it opened when it ends, however it ends.
C15_CursorsClosed ==
    last.op \in {"flush", "import"} => last.closed

\* the keys "<uid>~<e>~<hex>" of the event records in st: they hold a "~",
\* which no queue key does, and are not a cust record
AllEventKeys(st) ==
    {k \in DOMAIN st : Find(k, 126) > 0 /\ ~EndsWith(k, CustSuffix)}

\* the uid component of an event key
KeyUid(k) == SubSeq(k, 1, Find(k, 126) - 1)

\* the case of C16, on a step from the state a restart left: every call made
\* so far was an insert that stored an event record under a key of its own
C16_Case ==
    /\ last.op = "restart"
    /\ nops > 0
    /\ last.total0 = nops
    /\ last.invalid0 = 0
    /\ Cardinality(AllEventKeys(store)) = nops

\* C16: importTimeoutList on a fresh core, over the store a sequence of valid
\* inserts populated, yields the deadlines map of the core that ran the
\* inserts.
C16_BootstrapEquivalence ==
    [][(C16_Case /\ last'.op = "import")
          => sessions_flush_times' = last.deadlines0]_vars

\* C17: after importTimeoutList on a fresh core, every uid with event records
\* has deadline (latest event time of the uid + idle timeout) in micros.
C17_ImportDeadlines ==
    (last.op = "import" /\ last.err = "none" /\ last.deadlines0 = EmptyStore)
        => \A k \in AllEventKeys(store) :
              /\ KeyUid(k) \in DOMAIN sessions_flush_times
              /\ sessions_flush_times[KeyUid(k)] =
                    MaxOf(EventTimes(store, KeyUid(k))) + IdleMicros

\* C18: once importTimeoutList has run on the core, whatever inserts and
\* flushes follow, the uid of every event record in the store has a deadline
\* entry; in particular right after importTimeoutList over a store that
\* inserts populated, for every uid insert accepts.
C18_RecordsHaveDeadlines ==
    bootstrap = "done" =>
        \A k \in AllEventKeys(store) : KeyUid(k) \in DOMAIN sessions_flush_times

\* the entries of deadlines that the last call made or changed
NewEntries ==
    {u \in DOMAIN sessions_flush_times :
        u \notin DOMAIN last.deadlines0
          \/ sessions_flush_times[u] # last.deadlines0[u]}

\* C19: importTimeoutList makes deadline entries from event records only:
\* none for a key beginning with "__", none from a "~cust" record; and it
\* leaves the store as it was.
C19_ImportFrame ==
    last.op = "import" =>
        /\ store = last.store0
        /\ \A u \in NewEntries :
              /\ ~BeginsWith(u, ReservedPrefix)
              /\ \E k \in AllEventKeys(store) :
                    /\ KeyUid(k) = u
                    /\ sessions_flush_times[u] =
                          DecodeEvent(store[k]).time + IdleMicros

\* an import over a store with a queued envelope, cust records and events
C19_Witness ==
    /\ last.op = "import" /\ last.err = "none"
    /\ QueueKeys(store) # {}
    /\ \E k \in DOMAIN store : EndsWith(k, CustSuffix)
    /\ NewEntries # {}

\* C20: an insert never lowers and never removes an entry of deadlines.
C20_DeadlineMonotone ==
    InsertRan =>
        \A u \in DOMAIN last.deadlines0 :
            /\ u \in DOMAIN sessions_flush_times
            /\ sessions_flush_times[u] >= last.deadlines0[u]

\* an event stored for a uid whose entry was made by a later event
C20_Witness ==
    /\ InsertRan /\ last.appended /\ last.err = "none"
    /\ LastUid \in DOMAIN last.deadlines0
    /\ last.time + IdleMicros < last.deadlines0[LastUid]

\* the key of the record the last appendToSession call wrote
AppendKey == UidA \o Tilde \o <<113>> \o Tilde \o last.hex

\* every event record of st decodes, and encodes back to its bytes
Decodable(st) ==
    \A k \in AllEventKeys(st) :
        /\ DecodeEvent(st[k]).hdr /\ DecodeEvent(st[k]).ok
        /\ EncodeEvent(DecodeEvent(st[k]).time, DecodeEvent(st[k]).evid,
                       DecodeEvent(st[k]).logline) = st[k]

\* C21: the decoder of flushSession reads from the record appendToSession
\* wrote the time, the eid and the parameter list that were written, in the
\* same order, when every parameter name is registered; and
\* name_of(id_of(name)) = name for every registered name.
C21_RoundTrip ==
    /\ \A p \in PixelParams : getPixelParamName(getPixelParamID(p[1])) = p[1]
    /\ Decodable(store)
    /\ last.op = "append" =>
          /\ last.err = "none"
          /\ AppendKey \in DOMAIN store
          /\ DecodeEvent(store[AppendKey]) =
                [hdr |-> TRUE, time |-> last.time, evid |-> last.evid,
                 ok |-> TRUE, logline |-> last.params]

\* an event with a two-byte time, an eid holding "~" and a repeated name with
\* an empty value, written over an earlier record
C21_Witness ==
    /\ last.op = "append"
    /\ last.time = 300 * kMicrosPerSecond
    /\ Find(last.evid, 126) > 0
    /\ Len(last.params) = 2
    /\ last.params[1][1] = last.params[2][1]
    /\ last.params[2][2] = <<>>
    /\ AppendKey \in DOMAIN last.store0

\* the envelopes the last flush wrote, as <<session index, record index>>
WrittenIn(sessions) ==
    UNION {{<<i, j>> : j \in DOMAIN sessions[i].written} : i \in DOMAIN sessions}

\* the session_id of envelope p of the last flush
WrittenSid(p) ==
    DecodeEnvelope(last.sessions[p[1]].written[p[2]].value).session_id

\* C22: one flush call adds at most as many "__sessionq-" records as there
\* were users with a deadline < t, and no two envelopes it writes carry the
\* same session_id.
C22_OnePerUid ==
    last.op = "flush" =>
        /\ Cardinality(QueueKeys(store) \ QueueKeys(last.store0))
              <= Cardinality(Due(last.deadlines0, last.t))
        /\ Cardinality(WrittenIn(last.sessions))
              <= Cardinality(Due(last.deadlines0, last.t))
        /\ \A p, q \in WrittenIn(last.sessions) :
              WrittenSid(p) = WrittenSid(q) => p = q

\* a flush that wrote the envelopes of two users under two keys
C22_Witness ==
    /\ last.op = "flush"
    /\ Cardinality(WrittenIn(last.sessions)) = 2
    /\ Cardinality(QueueKeys(store) \ QueueKeys(last.store0)) = 2

\* the keys flushSession deleted in session record s
DeletedKeys(s) == DOMAIN s.store0 \ DOMAIN s.store1

\* C23: flushSession(u) deletes, and adds to the session of u, only records
\* whose key has the uid component u: the records of another uid v, also of
\* one that u is a proper prefix of, are neither deleted nor reported.
C23_OwnRecordsOnly ==
    last.op = "flush" =>
        \A i \in DOMAIN last.sessions :
            /\ DeletedKeys(last.sessions[i])
                  \subseteq UserKeys(last.sessions[i].store0,
                                     last.sessions[i].uid)
            /\ Len(last.sessions[i].session.events)
                  <= Cardinality(EventKeys(last.sessions[i].store0,
                                           last.sessions[i].uid))
            /\ last.sessions[i].session.customer_key # <<>> =>
                  (last.sessions[i].uid \o CustSuffix)
                      \in DOMAIN last.sessions[i].store0

\* the key under which the last insert stored its event
InsertKey ==
    LastUid \o Tilde \o getParam(last.params, "e").value \o Tilde \o last.hex

\* the event that flushSession(uid) is to make of the record at key k of st
EventOf(st, uid, k) ==
    [time |-> DecodeEvent(st[k]).time,
     evtype |-> SubSeq(k, Len(uid) + 2, Len(uid) + 2),
     evid |-> DecodeEvent(st[k]).evid,
     logline |-> DecodeEvent(st[k]).logline]

\* what C24 says of session record s: the events of the session are those of
\* the event records of its user, one each
C24_Session(s) ==
    /\ Len(s.session.events) = Cardinality(EventKeys(s.store0, s.uid))
    /\ \A k \in EventKeys(s.store0, s.uid) :
          \E j \in DOMAIN s.session.events :
              s.session.events[j] = EventOf(s.store0, s.uid, k)

\* C24: a valid insert for uid u stores (time cut to whole seconds, eid, the
\* parameters of the line without c, e and v, in their order) under a key
\* carrying its e value, and flushSession(u) hands each stored event of u to
\* the session once, with these values and the event type of its key.
C24_EventFidelity ==
    /\ (InsertRan /\ last.appended /\ last.err = "none") =>
          /\ InsertKey \in DOMAIN store
          /\ DecodeEvent(store[InsertKey]) =
                [hdr |-> TRUE,
                 time |-> (last.time \div kMicrosPerSecond) * kMicrosPerSecond,
                 evid |-> EidOf(getParam(last.params, "c").value),
                 ok |-> TRUE,
                 logline |-> StoredParams(last.params)]
    /\ last.op = "flush" =>
          \A i \in DOMAIN last.sessions :
              ~last.sessions[i].err => C24_Session(last.sessions[i])

\* C25: a successful insert for uid u leaves the record "<u>~cust" holding
\* its customer key, and the envelope flushSession(u) writes carries the
\* customer key that record holds, the one of the latest insert for u.
C25_CustOverwritten ==
    /\ (InsertRan /\ last.appended /\ last.err = "none") =>
          /\ (LastUid \o CustSuffix) \in DOMAIN store
          /\ store[LastUid \o CustSuffix] = last.customer
    /\ last.op = "flush" =>
          \A p \in WrittenIn(last.sessions) :
              /\ (last.sessions[p[1]].uid \o CustSuffix)
                    \in DOMAIN last.sessions[p[1]].store0
              /\ DecodeEnvelope(last.sessions[p[1]].written[p[2]].value).customer
                    = last.sessions[p[1]].store0[last.sessions[p[1]].uid
                                                   \o CustSuffix]

\* the last call was an insert that reached its store writes, and whose
\* transaction was abandoned
AbortRan == last.op = "insertAbort" /\ last.appended /\ last.err = "none"

\* what C26 says of the flush that follows: the entry of uid u is removed,
\* and flushSession(u) neither calls the JoinTarget nor writes an envelope
\* nor counts a joined session
C26_Flushed(u, sessions, deadl) ==
    /\ u \notin DOMAIN deadl
    /\ \E i \in DOMAIN sessions : sessions[i].uid = u
    /\ \A i \in DOMAIN sessions :
          sessions[i].uid = u =>
              /\ ~sessions[i].called
              /\ sessions[i].written = <<>>
              /\ sessions[i].joined = 0

\* C26: an insert whose transaction is abandoned leaves the store as it was
\* and keeps its deadlines entry; when the uid has no record, a flush past
\* that deadline removes the entry without calling the JoinTarget, writing
\* an envelope or counting a joined session.
C26_AbortedInsert ==
    [][/\ (last'.op = "insertAbort" /\ last'.appended /\ last'.err = "none") =>
            /\ store' = store
            /\ LastUid' \in DOMAIN sessions_flush_times'
       /\ ( /\ AbortRan
            /\ UserKeys(store, LastUid) = {}
            /\ last'.op = "flush" /\ last'.err = "none"
            /\ sessions_flush_times[LastUid] < last'.t )
            => C26_Flushed(LastUid, last'.sessions, sessions_flush_times')]_vars

\* C27: an insert(customer_key, time, body, txn) that fails, with whatever
\* error (IndexError of a parameter name that is not registered included),
\* has changed neither the store nor deadlines, and has added exactly 1 to
\* loglines_invalid.
C27_FailedInsertAtomic ==
    (InsertRan /\ last.err # "none") =>
        /\ store = last.store0
        /\ sessions_flush_times = last.deadlines0
        /\ stat_loglines_invalid = last.invalid0 + 1

\* the keys under which the last flush wrote its envelopes
WrittenKeys ==
    {last.sessions[p[1]].written[p[2]].key : p \in WrittenIn(last.sessions)}

\* the queue records of st1 are in st2, with the values they had
QueueKept(st1, st2) ==
    \A k \in QueueKeys(st1) : k \in DOMAIN st2 /\ st2[k] = st1[k]

\* C28: no insert and no flush deletes or overwrites a queued envelope (a
\* record under "__sessionq-..."; a flush drawing the key of a queued envelope
\* anew aside), and none decodes one as an event: a decode error that ends a
\* flush comes from an event record. For every uid insert accepts.
C28_QueueUntouched ==
    /\ (InsertRan \/ last.op = "insertAbort") => QueueKept(last.store0, store)
    /\ last.op = "flush" =>
          /\ \A k \in QueueKeys(last.store0) \ WrittenKeys :
                k \in DOMAIN store /\ store[k] = last.store0[k]
          /\ \A i \in DOMAIN last.sessions :
                /\ \A k \in QueueKeys(last.sessions[i].store0) :
                      k \in DOMAIN last.sessions[i].store1
                /\ last.sessions[i].err =>
                      \E k \in AllEventKeys(last.sessions[i].store0) :
                          DecodeFails(last.sessions[i].store0[k])

\* the queued envelopes of st with session_id u
EnvelopesOf(st, u) ==
    {k \in QueueKeys(st) : DecodeEnvelope(st[k]).session_id = u}

\* deadlines is empty, the store holds queue records only, and every user
\* with events in the store the last flush started from has one envelope
LiveDone ==
    /\ sessions_flush_times = EmptyStore
    /\ QueueKeys(store) = DOMAIN store
    /\ \A u \in UsersOf(last.store0) :
          Cardinality(EnvelopesOf(store, u)) = 1

\* C29: once inserts have stopped and flush is called with a stream time
\* past every deadline (the store and the JoinTarget not failing, the core
\* not in dry-run mode), deadlines is empty, the store holds no event and no
\* cust record, and every user that had stored events has exactly one
\* envelope in the queue.  flush is synchronous: under the fairness of
\* SpecLive such a flush is made whenever deadlines has entries, and the
\* state it returns in is the state the claim says is reached eventually.
C29_Liveness == last.op = "flush" => LiveDone

\* the last call was one of the two insertLogline overloads
InsertCalled == last.op \in {"insert", "insertRaw", "insertAbort"}

\* the last call ran the body of insertLogline(customer_key, time, body, txn)
BodyRan == InsertRan \/ last.op = "insertAbort"

\* C30 as stated: every insert call adds exactly 1 to loglines_total.
C30_Original == InsertCalled => stat_loglines_total = last.total0 + 1

\* C30 amended: every call of insertLogline(customer_key, time, body, txn),
\* also one made by the raw wrapper, adds exactly 1 to loglines_total
\* whatever its outcome; a raw line the wrapper rejects changes neither
\* counter; so every insert call keeps loglines_invalid <= loglines_total.
C30_TotalCounts ==
    /\ BodyRan =>
          /\ stat_loglines_total = last.total0 + 1
          /\ stat_loglines_invalid \in {last.invalid0, last.invalid0 + 1}
    /\ (InsertCalled /\ ~BodyRan) =>
          /\ stat_loglines_total = last.total0
          /\ stat_loglines_invalid = last.invalid0
    /\ (InsertCalled /\ last.invalid0 <= last.total0) =>
          stat_loglines_invalid <= stat_loglines_total

\* a line rejected as invalid on a core that has so far seen invalid lines
\* only
C30_Witness ==
    /\ InsertRan /\ last.err = "ParseError"
    /\ last.total0 > 0
    /\ last.invalid0 = last.total0

\* ------------------------------------------------ claims: nested loop join

\* the input columns of the pair of a base row and a joined row
JoinInputs(base_row, joined_row) ==
    [i \in 1..Len(input_map_) |->
        IF input_map_[i].table_idx = 0
        THEN base_row[input_map_[i].column_idx + 1]
        ELSE joined_row[input_map_[i].column_idx + 1]]

\* the result row of the input columns in, or nothing when the WHERE
\* expression drops it
ResultRows(in) ==
    IF isEmpty(where_expr_) \/ getBool(evaluate(where_expr_[1], in))
    THEN << [i \in 1..Len(select_exprs_) |->
                evaluate(select_exprs_[i], in)] >>
    ELSE <<>>

\* the pair of base row b and joined row j satisfies the join condition
Joins(b, j) ==
    getBool(evaluate(join_cond_expr_[1],
                     JoinInputs(base_tbl_[b], joined_tbl_[j])))

RECURSIVE MatchedRows(_, _)
\* the result rows of base row b and the joined rows from j on that satisfy
\* the join condition
MatchedRows(b, j) ==
    IF j > Len(joined_tbl_) THEN <<>>
    ELSE (IF Joins(b, j)
          THEN ResultRows(JoinInputs(base_tbl_[b], joined_tbl_[j]))
          ELSE <<>>) \o MatchedRows(b, j + 1)

\* the result rows of base row b in an outer join
OuterRowsOf(b) ==
    IF \E j \in 1..Len(joined_tbl_) : Joins(b, j)
    THEN MatchedRows(b, 1)
    ELSE ResultRows(JoinInputs(base_tbl_[b], <<NullValue>>))

RECURSIVE OuterRows(_)
\* the result rows of the base rows from b on in an outer join
OuterRows(b) ==
    IF b > Len(base_tbl_) THEN <<>>
    ELSE OuterRowsOf(b) \o OuterRows(b + 1)

\* the rows of s are the first rows of t
FirstRowsOf(s, t) ==
    /\ Len(s) <= Len(t)
    /\ \A i \in 1..Len(s) : s[i] = t[i]

\* C31: the cursor of an OUTER join yields, for each base row in order, one
\* row per joined row satisfying the join condition or, when none does, one
\* row with the base row's values and NULL in the joined table's columns,
\* rows failing WHERE dropped; this for every size of the joined table, zero
\* included; and then the cursor returns false.
C31_OuterJoin ==
    result_cursor = "outer" =>
        /\ FirstRowsOf(yielded, OuterRows(1))
        /\ cursor_done => yielded = OuterRows(1)

\* the input columns of the k-th pair in base-major order
PairInputs(k) ==
    JoinInputs(base_tbl_[((k - 1) \div Len(joined_tbl_)) + 1],
               joined_tbl_[((k - 1) % Len(joined_tbl_)) + 1])

RECURSIVE PairRows(_)
\* the result rows of the pairs from the k-th on, in base-major order
\* following the joined table's order
PairRows(k) ==
    IF k > Len(base_tbl_) * Len(joined_tbl_) THEN <<>>
    ELSE ResultRows(PairInputs(k)) \o PairRows(k + 1)

\* C32: a CARTESIAN join, and an INNER join with no join condition (which
\* takes the cartesian path), yields exactly one row per pair of a base row
\* and a joined row that passes WHERE, each pair once, in base-major order
\* following the joined table's order, and then returns false; with an empty
\* joined table it yields no row and returns false once the base cursor is
\* exhausted.
C32_Cartesian ==
    /\ (result_cursor # "none" /\ join_type_ = "CARTESIAN") =>
          result_cursor = "cartesian"
    /\ (result_cursor # "none" /\ join_type_ = "INNER"
          /\ isEmpty(join_cond_expr_)) => result_cursor = "cartesian"
    /\ result_cursor = "cartesian" =>
          /\ FirstRowsOf(yielded, PairRows(1))
          /\ cursor_done =>
                /\ yielded = PairRows(1)
                /\ base_tbl_cursor_ = Len(base_tbl_)
          /\ (Len(joined_tbl_) = 0 /\ base_tbl_cursor_ < Len(base_tbl_)) =>
                ~cursor_done /\ yielded = <<>>

\* an INNER join with no join condition over two tables of two different
\* rows each, read to the end, whose WHERE expression dropped some pairs and
\* kept others
C32_Witness ==
    /\ join_type_ = "INNER" /\ isEmpty(join_cond_expr_)
    /\ result_cursor = "cartesian" /\ cursor_done
    /\ Len(base_tbl_) = 2 /\ base_tbl_[1] # base_tbl_[2]
    /\ Len(joined_tbl_) = 2 /\ joined_tbl_[1] # joined_tbl_[2]
    /\ ~isEmpty(where_expr_)
    /\ Len(yielded) = 2

====
